---- MODULE Spec2Model ----
(***************************************************************************)
(* The storage core of nikke: the page file (storage.rs), the LRU buffer   *)
(* pool (buffer_pool.rs) and the B+ tree index built on it (index.rs).     *)
(*                                                                         *)
(* Spec runs the calls of several threads step by step, with the page      *)
(* content locks (RwLock) and the pool mutex of the source; FairSpec adds  *)
(* weak fairness of every thread's steps; Spec1 and FairSpec1 run one      *)
(* thread alone.                                                           *)
(* TreeSpec runs insert and search as whole calls of one caller, statement *)
(* by statement of index.rs, without the page content locks: it shows what *)
(* the tree code computes when a call runs to its return.  AscSpec does    *)
(* the same for one long ascending run of keys, past the pool's capacity.  *)
(***************************************************************************)
EXTENDS Integers, Sequences, FiniteSets, TLC

\* ---------------------------------------------------------------- bounds
MaxKey == 10
MaxDup == 2
NThreads == 2
MaxThreadKey == 2
MaxCalls == 2
MaxAsc == 140
MaxMore == 52
PoolCap == 2
MaxPages == 3
MaxPoolCalls == 3
MaxSlot == 2
MaxWrites == 2

\* ------------------------------------------------------ program constants
ORDER == 4
PAGE_SIZE == 4096
POOL_CAPACITY == 100

Keys == 1..MaxKey
Threads == 1..NThreads
\* the keys the threads of Spec insert and search
ThreadKeys == 1..MaxThreadKey

VARIABLES
  root,       \* BPlusTree.root: Option<Arc<Page>>, <<>> or <<handle>>
  heap,       \* the live Arc<Page> instances: handle -> PageData
  pool,       \* PoolAndLRU.pool: page id -> handle
  lru_queue,  \* PoolAndLRU.lru_queue: page ids, most recently used first
  file,       \* StorageEngine.file: one encoded record per PAGE_SIZE slot
  ncalls,     \* history: number of insert calls made per key
  first,      \* history: the value of the first insert of a key that returned Ok
  last,       \* the last call of TreeSpec and what it returned
  pc,         \* per thread: where it is in its call
  call,       \* per thread: the call it is in, [op, key, value, dup]
  current_page, \* per thread: the Arc<Page> its local variable holds
  ret,        \* per thread: what its last call returned
  ncall,      \* per thread: number of calls it has made
  wlocks,     \* write guards held on page content: <<thread, handle>>
  poisoned,   \* handles whose RwLock a panicking writer has poisoned
  pool_lock,  \* owner of the pool_and_lru mutex, 0 when free
  reentry,    \* what this build's RwLock does on a request by its own writer
  capacity,   \* BufferPool.capacity
  recent,     \* history: the ids given out by the pool, latest access first
  allocated   \* history: the ids returned by allocate_page, in order

tree_vars == <<root, heap, pool, lru_queue, file>>
hist_vars == <<ncalls, first>>
thread_vars == <<pc, call, current_page, ret, ncall, wlocks, poisoned, pool_lock, reentry, capacity, recent, allocated>>
vars == <<root, heap, pool, lru_queue, file, ncalls, first, last,
          pc, call, current_page, ret, ncall, wlocks, poisoned, pool_lock, reentry, capacity, recent, allocated>>

\* ------------------------------------------------------- Option and Vec
None == <<>>
Some(x) == <<x>>

MinOf(S) == CHOOSE x \in S : \A y \in S : x <= y
MaxOf(S) == CHOOSE x \in S : \A y \in S : x >= y

\* let x = ...; the rest of the block
With(x, rest(_)) == rest(x)
\* the ? of Rust on a state with an error field: an error ends the call
Try(w, rest(_)) == IF w.err # "" THEN w ELSE rest(w)
\* the ? of Rust on a call that returns a page
TryPage(r, rest(_, _)) == IF r.w.err # "" THEN r.w ELSE rest(r.w, r.page)

\* Vec::insert(pos, x), pos counted from 0
VecInsert(s, pos, x) == SubSeq(s, 1, pos) \o <<x>> \o SubSeq(s, pos + 1, Len(s))
\* what Vec::split_off(at) and Vec::truncate(at) leave in the vector
VecHead(s, at) == IF at >= Len(s) THEN s ELSE SubSeq(s, 1, at)
\* what Vec::split_off(at) returns
VecTail(s, at) == SubSeq(s, at + 1, Len(s))

\* slice::binary_search on an ascending slice: Ok(index of a match) or
\* Err(insertion point), indices counted from 0.  With several matches the
\* library may report any of them: pick says which one this call reports.
Picks == {"lowest", "highest"}

binary_search(keys, key, pick) ==
  LET m == {i \in 1..Len(keys) : keys[i] = key}
      below == Cardinality({i \in 1..Len(keys) : keys[i] < key})
  IN IF m = {} THEN [found |-> FALSE, idx |-> below]
     ELSE [found |-> TRUE,
           idx |-> (IF pick = "lowest" THEN MinOf(m) ELSE MaxOf(m)) - 1]

\* ------------------------------------------------------------ storage.rs
NewPageData(id, node_type) ==
  [id |-> id, node_type |-> node_type, keys |-> <<>>, children |-> <<>>,
   values |-> <<>>, next |-> None, parent_id |-> None]

\* bincode of an Option<u32>: a tag, then the value when present
EncodeOption(o) == IF o = None THEN <<0>> ELSE <<1, o[1]>>

\* variant of the encoding that writes every parent_id as None
Encode_no_parent(pd) ==
  <<pd.id, IF pd.node_type = "Internal" THEN 0 ELSE 1>>
    \o <<Len(pd.keys)>> \o pd.keys
    \o <<Len(pd.children)>> \o pd.children
    \o <<Len(pd.values)>> \o pd.values
    \o EncodeOption(pd.next) \o EncodeOption(None)

\* bincode::serialize(PageData), one number per encoded field
Encode(pd) ==
  <<pd.id, IF pd.node_type = "Internal" THEN 0 ELSE 1>>
    \o <<Len(pd.keys)>> \o pd.keys
    \o <<Len(pd.children)>> \o pd.children
    \o <<Len(pd.values)>> \o pd.values
    \o EncodeOption(pd.next) \o EncodeOption(pd.parent_id)

\* encoded.len() in bytes: u32 id, u32 variant, u64 lengths, i32 keys,
\* u32 children, u64 values, u8 option tags
EncodedLen(pd) ==
  4 + 4 + 8 + 4 * Len(pd.keys) + 8 + 4 * Len(pd.children) + 8 + 8 * Len(pd.values)
    + (IF pd.next = None THEN 1 ELSE 5) + (IF pd.parent_id = None THEN 1 ELSE 5)

\* the slot's field at position i; the slot is zero-padded to PAGE_SIZE
SlotAt(s, i) == IF i <= Len(s) THEN s[i] ELSE 0

\* bincode::deserialize of a slot
Decode(s) ==
  LET nk == SlotAt(s, 3)
      nc == SlotAt(s, 4 + nk)
      nv == SlotAt(s, 5 + nk + nc)
      p == 5 + nk + nc + nv
      ntag == SlotAt(s, p + 1)
      q == p + 1 + (IF ntag = 1 THEN 1 ELSE 0)
      ptag == SlotAt(s, q + 1)
  IN [ok |-> SlotAt(s, 2) \in {0, 1} /\ ntag \in {0, 1} /\ ptag \in {0, 1},
      data |-> [id |-> SlotAt(s, 1),
                node_type |-> IF SlotAt(s, 2) = 0 THEN "Internal" ELSE "Leaf",
                keys |-> [i \in 1..nk |-> SlotAt(s, 3 + i)],
                children |-> [i \in 1..nc |-> SlotAt(s, 4 + nk + i)],
                values |-> [i \in 1..nv |-> SlotAt(s, 5 + nk + nc + i)],
                next |-> IF ntag = 1 THEN Some(SlotAt(s, p + 2)) ELSE None,
                parent_id |-> IF ptag = 1 THEN Some(SlotAt(s, q + 2)) ELSE None]]

\* variant of StorageEngine::read_page that reads zeros past the end of the file
StorageEngine_read_page_zeros(f, page_id) ==
  LET d == Decode(IF page_id + 1 > Len(f) THEN <<>> ELSE f[page_id + 1])
  IN [err |-> IF d.ok THEN "" ELSE "InvalidData", data |-> d.data]

\* StorageEngine::read_page: read_exact fails when the slot is not in the file
StorageEngine_read_page(f, page_id) ==
  IF page_id + 1 > Len(f) THEN [err |-> "UnexpectedEof", data |-> NewPageData(0, "Leaf")]
  ELSE LET d == Decode(f[page_id + 1])
       IN [err |-> IF d.ok THEN "" ELSE "InvalidData", data |-> d.data]

\* variant of StorageEngine::write_page without the size check
StorageEngine_write_page_unchecked(f, page_data) ==
  [err |-> "",
   file |-> [i \in 1..(IF page_data.id + 1 > Len(f) THEN page_data.id + 1 ELSE Len(f)) |->
               IF i = page_data.id + 1 THEN Encode(page_data)
               ELSE IF i <= Len(f) THEN f[i] ELSE <<>>]]

\* StorageEngine::write_page: seek to id * PAGE_SIZE and write one padded slot;
\* a seek past the end leaves zero slots in between
StorageEngine_write_page(f, page_data) ==
  IF EncodedLen(page_data) > PAGE_SIZE THEN [err |-> "Page size exceeded", file |-> f]
  ELSE [err |-> "",
        file |-> [i \in 1..(IF page_data.id + 1 > Len(f) THEN page_data.id + 1 ELSE Len(f)) |->
                    IF i = page_data.id + 1 THEN Encode(page_data)
                    ELSE IF i <= Len(f) THEN f[i] ELSE <<>>]]

\* variant of StorageEngine::allocate_page that takes the id of the last slot
StorageEngine_allocate_page_last(f, node_type) ==
  LET page_id == IF Len(f) = 0 THEN 0 ELSE Len(f) - 1
      page_data == NewPageData(page_id, node_type)
      r == StorageEngine_write_page(f, page_data)
  IN [err |-> r.err, file |-> r.file, data |-> page_data]

\* StorageEngine::allocate_page: the next id is file length / PAGE_SIZE
StorageEngine_allocate_page(f, node_type) ==
  LET page_id == (Len(f) * PAGE_SIZE) \div PAGE_SIZE
      page_data == NewPageData(page_id, node_type)
      r == StorageEngine_write_page(f, page_data)
  IN [err |-> r.err, file |-> r.file, data |-> page_data]

\* -------------------------------------------------------- buffer_pool.rs
\* The state a call works on, the error it has met so far, and the match its
\* binary searches report.
World(pick) == [root |-> root, heap |-> heap, pool |-> pool, lru_queue |-> lru_queue,
                file |-> file, capacity |-> capacity, err |-> "", pick |-> pick]

\* get_page, hit: remove the id from the queue and push it to the front
\* variant of lru_promote that leaves the queue as it is
lru_promote_skip(q, page_id) == q

lru_promote(q, page_id) ==
  LET at == {i \in 1..Len(q) : q[i] = page_id}
  IN <<page_id>> \o (IF at = {} THEN q
                     ELSE SubSeq(q, 1, MinOf(at) - 1) \o SubSeq(q, MinOf(at) + 1, Len(q)))

\* evict the back of the queue when the pool is at capacity, then insert
pool_insert(w, page_id, h) ==
  LET evict == Cardinality(DOMAIN w.pool) >= w.capacity /\ w.lru_queue # <<>>
      old_id == w.lru_queue[Len(w.lru_queue)]
      q == IF evict THEN SubSeq(w.lru_queue, 1, Len(w.lru_queue) - 1) ELSE w.lru_queue
      p == IF evict THEN [i \in DOMAIN w.pool \ {old_id} |-> w.pool[i]] ELSE w.pool
  IN [w EXCEPT !.pool = (page_id :> h) @@ p, !.lru_queue = <<page_id>> \o q]

BufferPool_get_page(w, page_id) ==
  IF page_id \in DOMAIN w.pool
  THEN [w |-> [w EXCEPT !.lru_queue = lru_promote(@, page_id)], page |-> w.pool[page_id]]
  ELSE With(StorageEngine_read_page(w.file, page_id), LAMBDA r :
         IF r.err # "" THEN [w |-> [w EXCEPT !.err = r.err], page |-> 0]
         ELSE [w |-> pool_insert([w EXCEPT !.heap = Append(@, r.data)], r.data.id,
                                 Len(w.heap) + 1),
               page |-> Len(w.heap) + 1])

BufferPool_write_page(w, page) ==
  LET r == StorageEngine_write_page(w.file, w.heap[page])
  IN [w EXCEPT !.file = r.file, !.err = r.err]

BufferPool_allocate_page(w, node_type) ==
  With(StorageEngine_allocate_page(w.file, node_type), LAMBDA a :
    IF a.err # "" THEN [w |-> [w EXCEPT !.err = a.err], page |-> 0]
    ELSE [w |-> pool_insert([w EXCEPT !.file = a.file, !.heap = Append(@, a.data)],
                            a.data.id, Len(w.heap) + 1),
          page |-> Len(w.heap) + 1])

\* -------------------------------------------------------------- index.rs
\* the child index chosen at an internal page: Ok(idx) => idx + 1, Err(idx) => idx
\* variant of the child choice that sends a key equal to a separator left
child_index_left(keys, key, pick) ==
  LET bs == binary_search(keys, key, pick)
  IN bs.idx

child_index(keys, key, pick) ==
  LET bs == binary_search(keys, key, pick)
  IN IF bs.found THEN bs.idx + 1 ELSE bs.idx

RECURSIVE descend(_, _, _)
\* the loop of find_leaf_page from the page `current`
descend(w, current, key) ==
  IF w.heap[current].node_type = "Leaf" THEN [w |-> w, page |-> current]
  ELSE With(child_index(w.heap[current].keys, key, w.pick), LAMBDA idx :
         IF idx >= Len(w.heap[current].children)
         THEN [w |-> [w EXCEPT !.err = "Invalid child index"], page |-> 0]
         ELSE With(BufferPool_get_page(w, w.heap[current].children[idx + 1]), LAMBDA g :
                IF g.w.err # "" THEN g ELSE descend(g.w, g.page, key)))

\* variant of find_leaf_page that cuts the leaf it returns off the leaf chain
find_leaf_page_cut(w, key) ==
  IF w.root = None THEN [w |-> [w EXCEPT !.err = "The tree is empty"], page |-> 0]
  ELSE With(descend(w, w.root[1], key), LAMBDA f :
         IF f.w.err # "" THEN f
         ELSE [w |-> [f.w EXCEPT !.heap[f.page].next = None], page |-> f.page])

find_leaf_page(w, key) ==
  IF w.root = None THEN [w |-> [w EXCEPT !.err = "The tree is empty"], page |-> 0]
  ELSE descend(w, w.root[1], key)

\* insert, lines 52-56: the pair goes to the position binary_search reports,
\* whether the key was found or not
leaf_insert(data, key, value, pick) ==
  LET pos == binary_search(data.keys, key, pick).idx
  IN [data EXCEPT !.keys = VecInsert(@, pos, key), !.values = VecInsert(@, pos, value)]

RECURSIVE reparent(_, _, _, _)
\* split_internal_page, lines 231-234: fetch every moved child and set its parent
reparent(w, children, i, new_id) ==
  IF i > Len(children) THEN w
  ELSE TryPage(BufferPool_get_page(w, children[i]), LAMBDA wg, child :
         reparent([wg EXCEPT !.heap[child].parent_id = Some(new_id)],
                  children, i + 1, new_id))

\* insert_into_parent, lines 179-185: separator and right child into the parent
parent_insert(data, key, right_id, pick) ==
  LET pos == binary_search(data.keys, key, pick).idx
  IN [data EXCEPT !.keys = VecInsert(@, pos, key),
                  !.children = VecInsert(@, pos + 1, right_id)]

\* split_leaf_page, lines 145-154: the two leaves after the split
\* variant of the leaf split that leaves the old leaf's next link as it was
leaf_split_old_unlinked(data, new_id) ==
  LET mid == Len(data.keys) \div 2
  IN [data EXCEPT !.keys = VecHead(@, mid), !.values = VecHead(@, mid)]

leaf_split_old(data, new_id) ==
  LET mid == Len(data.keys) \div 2
  IN [data EXCEPT !.keys = VecHead(@, mid), !.values = VecHead(@, mid),
                  !.next = Some(new_id)]

leaf_split_new(data, new_data) ==
  LET mid == Len(data.keys) \div 2
  IN [new_data EXCEPT !.keys = VecTail(data.keys, mid),
                      !.values = VecTail(data.values, mid),
                      !.next = data.next,
                      !.parent_id = data.parent_id]

\* split_internal_page, lines 227-228: split_off(mid + 1) on keys and children
internal_split_off(data) ==
  LET mid == Len(data.keys) \div 2
  IN [data EXCEPT !.keys = VecHead(@, mid + 1), !.children = VecHead(@, mid + 1)]

\* variant of the new internal page that also lists the last child the old
\* page keeps
internal_split_new_overlap(data, new_data) ==
  LET mid == Len(data.keys) \div 2
  IN [new_data EXCEPT !.keys = VecTail(data.keys, mid + 1),
                      !.children = VecTail(data.children, mid)]

\* mutant: split_off one position too far
internal_split_new_late(data, new_data) ==
  LET mid == Len(data.keys) \div 2
  IN [new_data EXCEPT !.keys = VecTail(data.keys, mid + 2),
                      !.children = VecTail(data.children, mid + 1)]

internal_split_new(data, new_data) ==
  LET mid == Len(data.keys) \div 2
  IN [new_data EXCEPT !.keys = VecTail(data.keys, mid + 1),
                      !.children = VecTail(data.children, mid + 1)]

\* variant of the truncation that keeps the middle key in the old page
internal_truncate_keep(data, mid) ==
  [data EXCEPT !.keys = VecHead(@, mid + 1), !.children = VecHead(@, mid + 1)]

\* split_internal_page, lines 238-239: truncate(mid) and truncate(mid + 1)
internal_truncate(data, mid) ==
  [data EXCEPT !.keys = VecHead(@, mid), !.children = VecHead(@, mid + 1)]

\* mutant: the new root without its right child
new_root_data_left_only(data, key, left_id, right_id) ==
  [data EXCEPT !.keys = Append(@, key), !.children = Append(@, left_id)]

\* variant of the new root with its two children in the other order
new_root_data_swapped(data, key, left_id, right_id) ==
  [data EXCEPT !.keys = Append(@, key),
               !.children = Append(Append(@, right_id), left_id)]

\* insert_into_parent, lines 199-206: the new root over left and right
new_root_data(data, key, left_id, right_id) ==
  [data EXCEPT !.keys = Append(@, key),
               !.children = Append(Append(@, left_id), right_id)]

RECURSIVE insert_into_parent(_, _, _, _)
RECURSIVE split_internal_page(_, _)

split_internal_page(w, node) ==
  TryPage(BufferPool_allocate_page(w, "Internal"), LAMBDA wa, new_internal :
    With(wa.heap[node], LAMBDA data :
      Try(reparent([wa EXCEPT !.heap[node] = internal_split_off(data),
                              !.heap[new_internal] = internal_split_new(data, @)],
                   VecTail(data.children, Len(data.keys) \div 2 + 1), 1,
                   wa.heap[new_internal].id),
          LAMBDA wc :
            Try(BufferPool_write_page(
                  [wc EXCEPT !.heap[new_internal].parent_id = wc.heap[node].parent_id,
                             !.heap[node] = internal_truncate(@, Len(data.keys) \div 2)],
                  node),
                LAMBDA wd :
                  Try(BufferPool_write_page(wd, new_internal), LAMBDA we :
                    insert_into_parent(we, node, data.keys[Len(data.keys) \div 2 + 1],
                                       new_internal))))))

insert_into_parent(w, left, key, right) ==
  IF w.heap[left].parent_id # None
  THEN TryPage(BufferPool_get_page(w, w.heap[left].parent_id[1]), LAMBDA wg, parent :
         Try(BufferPool_write_page(
               [wg EXCEPT !.heap[parent] = parent_insert(@, key, wg.heap[right].id, wg.pick),
                          !.heap[right].parent_id = Some(wg.heap[parent].id)],
               parent),
             LAMBDA ww :
               IF Len(ww.heap[parent].keys) > ORDER - 1
               THEN split_internal_page(ww, parent) ELSE ww))
  ELSE TryPage(BufferPool_allocate_page(w, "Internal"), LAMBDA wa, new_root :
         Try(BufferPool_write_page(
               [wa EXCEPT !.heap[new_root] =
                            new_root_data(@, key, wa.heap[left].id, wa.heap[right].id),
                          !.heap[left].parent_id = Some(wa.heap[new_root].id),
                          !.heap[right].parent_id = Some(wa.heap[new_root].id)],
               new_root),
             LAMBDA ww : [ww EXCEPT !.root = Some(new_root)]))

split_leaf_page(w, leaf) ==
  TryPage(BufferPool_allocate_page(w, "Leaf"), LAMBDA wa, new_leaf :
    Try(BufferPool_write_page(
          [wa EXCEPT !.heap[new_leaf] = leaf_split_new(wa.heap[leaf], @),
                     !.heap[leaf] = leaf_split_old(@, wa.heap[new_leaf].id)],
          leaf),
        LAMBDA wb :
          Try(BufferPool_write_page(wb, new_leaf), LAMBDA wc :
            insert_into_parent(wc, leaf, wc.heap[new_leaf].keys[1], new_leaf))))

\* BPlusTree::insert as one call
insert(w, key, value) ==
  IF w.root = None
  THEN TryPage(BufferPool_allocate_page(w, "Leaf"), LAMBDA wa, new_leaf :
         Try(BufferPool_write_page(
               [wa EXCEPT !.heap[new_leaf].keys = Append(@, key),
                          !.heap[new_leaf].values = Append(@, value)],
               new_leaf),
             LAMBDA ww : [ww EXCEPT !.root = Some(new_leaf)]))
  ELSE TryPage(find_leaf_page(w, key), LAMBDA wf, leaf :
         Try(BufferPool_write_page(
               [wf EXCEPT !.heap[leaf] = leaf_insert(@, key, value, wf.pick)], leaf),
             LAMBDA ww :
               IF Len(ww.heap[leaf].keys) > ORDER - 1
               THEN split_leaf_page(ww, leaf) ELSE ww))

\* search, lines 85-88: the value at the index binary_search reports
leaf_lookup(data, key, pick) ==
  LET bs == binary_search(data.keys, key, pick)
  IN IF bs.found THEN Some(data.values[bs.idx + 1]) ELSE None

\* BPlusTree::search as one call: the state after it and Ok(value)
search(w, key) ==
  IF w.root = None THEN [w |-> w, value |-> None]
  ELSE With(find_leaf_page(w, key), LAMBDA f :
         IF f.w.err # "" THEN [w |-> f.w, value |-> None]
         ELSE [w |-> f.w, value |-> leaf_lookup(f.w.heap[f.page], key, w.pick)])

\* --------------------------------------------------------------- clients
\* the value a caller passes with its n-th insert of key (n from 0):
\* 10 * key as in the tests, and a different one when the key is repeated
ValueOf(key, n) == 10 * key + n

Unused == {k \in Keys : ncalls[k] = 0}

Install(w) ==
  /\ root' = w.root
  /\ heap' = w.heap
  /\ pool' = w.pool
  /\ lru_queue' = w.lru_queue
  /\ file' = w.file

\* ------------------------------------------------------- the tree's shape
PageIds == 0..(Len(file) - 1)

\* the content of page id as the tree observes it: the cached instance,
\* or the record on disk when the page is not cached
PageOf(id) == IF id \in DOMAIN pool THEN heap[pool[id]] ELSE Decode(file[id + 1]).data

RootId == heap[root[1]].id

RECURSIVE Reach(_, _)
\* the page ids met from the ids in `frontier` through children
Reach(frontier, seen) ==
  IF frontier \subseteq seen THEN seen
  ELSE LET new == frontier \ seen
       IN Reach(UNION {{PageOf(id).children[i] : i \in 1..Len(PageOf(id).children)} : id \in new}
                  \cap PageIds,
                seen \cup new)

TreePages == IF root = None THEN {} ELSE Reach({RootId}, {})
TreeLeaves == {id \in TreePages : PageOf(id).node_type = "Leaf"}

RECURSIVE Leftmost(_, _)
Leftmost(id, fuel) ==
  IF PageOf(id).node_type = "Leaf" \/ PageOf(id).children = <<>> \/ fuel = 0 THEN id
  ELSE Leftmost(PageOf(id).children[1], fuel - 1)

RECURSIVE Walk(_, _)
\* the leaf ids met from leaf id along next, at most fuel of them
Walk(id, fuel) ==
  IF fuel = 0 \/ id \notin PageIds THEN <<>>
  ELSE <<id>> \o (IF PageOf(id).next = None THEN <<>> ELSE Walk(PageOf(id).next[1], fuel - 1))

LeafChain == IF root = None THEN <<>> ELSE Walk(Leftmost(RootId, Len(file)), Len(file) + 1)

RECURSIVE Flatten(_)
Flatten(ss) == IF ss = <<>> THEN <<>> ELSE ss[1] \o Flatten(Tail(ss))

ChainKeys == Flatten([i \in 1..Len(LeafChain) |-> PageOf(LeafChain[i]).keys])

StrictlyAscending(s) == \A i \in 1..(Len(s) - 1) : s[i] < s[i + 1]

\* ---------------------------------------------------------------- TreeSpec
\* One caller, as in test_single_thread_insert_and_search: inserts, then a
\* search.  Every call runs to its return before the next one starts.
NoCall == [op |-> "none", key |-> 0, err |-> "", value |-> None]

ThreadsIdle ==
  /\ pc = [t \in Threads |-> "idle"]
  /\ call = [t \in Threads |-> [op |-> "none", key |-> 0, value |-> 0, dup |-> FALSE]]
  /\ current_page = [t \in Threads |-> 0]
  /\ ret = [t \in Threads |-> NoCall]
  /\ ncall = [t \in Threads |-> 0]
  /\ wlocks = {}
  /\ poisoned = {}
  /\ pool_lock = 0

EmptyTree ==
  /\ root = None
  /\ heap = <<>>
  /\ pool = <<>>
  /\ lru_queue = <<>>
  /\ file = <<>>
  /\ ncalls = [k \in Keys |-> 0]
  /\ first = [k \in Keys |-> None]
  /\ last = NoCall

TreeInit ==
  /\ EmptyTree
  /\ ThreadsIdle
  /\ reentry = "deadlock"
  /\ capacity = POOL_CAPACITY
  /\ recent = <<>>
  /\ allocated = <<>>

DoInsert(key) ==
  \E w \in {insert(World(pick), key, ValueOf(key, ncalls[key])) : pick \in Picks} :
     /\ Install(w)
     /\ ncalls' = [ncalls EXCEPT ![key] = @ + 1]
     /\ first' = IF w.err = "" /\ first[key] = None
                 THEN [first EXCEPT ![key] = Some(ValueOf(key, ncalls[key]))] ELSE first
     /\ last' = [op |-> "insert", key |-> key, err |-> w.err, value |-> None]
     /\ UNCHANGED thread_vars

\* insert of a key not inserted before: the smallest or the largest one left
TreeInsertNew ==
  \E key \in Unused :
     /\ last.op # "search"
     /\ key \in {MinOf(Unused), MaxOf(Unused)}
     /\ DoInsert(key)

\* insert of the key of the previous insert once more; one key is repeated,
\* at most MaxDup times
TreeInsertAgain ==
  /\ last.op = "insert"
  /\ ncalls[last.key] <= MaxDup
  /\ \A k \in Keys \ {last.key} : ncalls[k] <= 1
  /\ DoInsert(last.key)

\* after the inserts, a search of any key, also of key 0, which is never inserted
TreeSearch ==
  \E key \in Keys \cup {0} :
     /\ last.op = "insert"
     /\ \E s \in {search(World(pick), key) : pick \in Picks} :
           /\ Install(s.w)
           /\ last' = [op |-> "search", key |-> key, err |-> s.w.err, value |-> s.value]
     /\ UNCHANGED <<ncalls, first>>
     /\ UNCHANGED thread_vars

TreeNext == TreeInsertNew \/ TreeInsertAgain \/ TreeSearch

TreeSpec == TreeInit /\ [][TreeNext]_vars

\* -------------------------------------------------------------------- Spec
\* Threads call insert and search on one tree.  A step is what a thread does
\* between two lock requests; a request that cannot be granted disables the step.
Init ==
  /\ EmptyTree
  /\ ThreadsIdle
  /\ reentry \in {"deadlock", "panic"}
  /\ capacity = POOL_CAPACITY
  /\ recent = <<>>
  /\ allocated = <<>>

Writers(h) == {t \in Threads : <<t, h>> \in wlocks}

\* RwLock::read / RwLock::write followed by unwrap, requested by thread t on the
\* instance h: granted, waiting, or a panic (a poisoned lock; or, in a build
\* that detects it, a request for a lock the thread itself holds for writing)
LockRequest(t, h) ==
  IF h \in poisoned THEN "panic"
  ELSE IF Writers(h) = {} THEN "granted"
  ELSE IF Writers(h) = {t} /\ reentry = "panic" THEN "panic"
  ELSE "wait"

Goto(t, p) == pc' = [pc EXCEPT ![t] = p]

\* the call of thread t returns err (the empty string for Ok) and value
Return(t, err, value) ==
  /\ pc' = [pc EXCEPT ![t] = "idle"]
  /\ ret' = [ret EXCEPT ![t] = [op |-> call[t].op, key |-> call[t].key,
                                err |-> err, value |-> value]]
  /\ first' = IF call[t].op = "insert" /\ err = "" /\ first[call[t].key] = None
              THEN [first EXCEPT ![call[t].key] = Some(call[t].value)] ELSE first

\* thread t panics: its write guards are dropped and poison their locks
Panic(t) ==
  /\ pc' = [pc EXCEPT ![t] = "panicked"]
  /\ poisoned' = poisoned \cup {l[2] : l \in {m \in wlocks : m[1] = t}}
  /\ wlocks' = {l \in wlocks : l[1] # t}

\* a thread starts a call
Call(t) ==
  /\ pc[t] = "idle"
  /\ ncall[t] < MaxCalls
  /\ \E key \in ThreadKeys, op \in {"insert", "search"} :
        /\ call' = [call EXCEPT ![t] =
                      [op |-> op, key |-> key,
                       value |-> IF op = "insert" THEN ValueOf(key, ncalls[key]) ELSE 0,
                       dup |-> op = "insert" /\ first[key] # None]]
        /\ ncalls' = IF op = "insert" THEN [ncalls EXCEPT ![key] = @ + 1] ELSE ncalls
        /\ Goto(t, IF op = "insert" THEN "insert_root" ELSE "search_root")
  /\ ncall' = [ncall EXCEPT ![t] = @ + 1]
  /\ UNCHANGED <<tree_vars, first, last, current_page, ret, wlocks, poisoned, pool_lock, reentry, capacity, recent, allocated>>

\* insert, lines 28-33: read the root pointer
InsertRoot(t) ==
  /\ pc[t] = "insert_root"
  /\ Goto(t, IF root = None THEN "alloc_lock" ELSE "find_root")
  /\ UNCHANGED <<tree_vars, hist_vars, last, call, current_page, ret, ncall, wlocks, poisoned,
                 pool_lock, reentry, capacity, recent, allocated>>

\* allocate_page, line 121: lock pool_and_lru
AllocLock(t) ==
  /\ pc[t] = "alloc_lock"
  /\ pool_lock = 0
  /\ pool_lock' = t
  /\ Goto(t, "alloc_store")
  /\ UNCHANGED <<tree_vars, hist_vars, last, call, current_page, ret, ncall, wlocks, poisoned,
                 reentry, capacity, recent, allocated>>

\* allocate_page, lines 124-154: lock storage, allocate, insert into the pool,
\* release both locks
AllocStore(t) ==
  /\ pc[t] = "alloc_store"
  /\ \E a \in {BufferPool_allocate_page(World("lowest"), "Leaf")} :
        /\ Install(a.w)
        /\ current_page' = [current_page EXCEPT ![t] = a.page]
        /\ IF a.w.err # "" THEN Return(t, a.w.err, None)
           ELSE Goto(t, "new_fill") /\ UNCHANGED <<ret, first>>
  /\ pool_lock' = 0
  /\ UNCHANGED <<ncalls, last, call, ncall, wlocks, poisoned, reentry, capacity, recent, allocated>>

\* insert, lines 36-40: write-lock the new leaf and store the pair
NewLeafFill(t) ==
  /\ pc[t] = "new_fill"
  /\ LockRequest(t, current_page[t]) # "wait"
  /\ IF LockRequest(t, current_page[t]) = "panic"
     THEN Panic(t) /\ UNCHANGED heap
     ELSE /\ heap' = [heap EXCEPT ![current_page[t]].keys = Append(@, call[t].key),
                                  ![current_page[t]].values = Append(@, call[t].value)]
          /\ Goto(t, "new_write_id")
          /\ UNCHANGED <<wlocks, poisoned>>
  /\ UNCHANGED <<root, pool, lru_queue, file, hist_vars, last, call, current_page, ret, ncall,
                 pool_lock, reentry, capacity, recent, allocated>>

\* write_page, line 103: read-lock the page for its id
WritePageId(t) ==
  /\ pc[t] \in {"new_write_id", "leaf_write_id"}
  /\ LockRequest(t, current_page[t]) # "wait"
  /\ IF LockRequest(t, current_page[t]) = "panic"
     THEN Panic(t)
     ELSE /\ Goto(t, IF pc[t] = "new_write_id" THEN "new_write" ELSE "leaf_write")
          /\ UNCHANGED <<wlocks, poisoned>>
  /\ UNCHANGED <<tree_vars, hist_vars, last, call, current_page, ret, ncall, pool_lock, reentry, capacity, recent, allocated>>

\* write_page, lines 108-110: read-lock the page, lock storage, write the page.
\* For the new leaf insert goes on to set the root; for the leaf of lines 52-62
\* it drops its write guard and goes on with lines 61-68.
WritePageData(t) ==
  /\ pc[t] \in {"new_write", "leaf_write"}
  /\ LockRequest(t, current_page[t]) # "wait"
  /\ IF LockRequest(t, current_page[t]) = "panic"
     THEN Panic(t) /\ UNCHANGED <<tree_vars, ret, first>>
     ELSE \E w \in {BufferPool_write_page(World(pick), current_page[t]) : pick \in Picks} :
             IF w.err # ""
             THEN /\ Install(w)
                  /\ Return(t, w.err, None)
                  /\ wlocks' = {l \in wlocks : l[1] # t}
                  /\ UNCHANGED poisoned
             ELSE IF pc[t] = "new_write"
             THEN /\ Install(w)
                  /\ Goto(t, "new_root")
                  /\ UNCHANGED <<ret, first, wlocks, poisoned>>
             ELSE \E v \in {IF Len(w.heap[current_page[t]].keys) > ORDER - 1
                            THEN split_leaf_page(w, current_page[t]) ELSE w} :
                     /\ Install(v)
                     /\ Return(t, v.err, None)
                     /\ wlocks' = {l \in wlocks : l[1] # t}
                     /\ UNCHANGED poisoned
  /\ UNCHANGED <<ncalls, last, call, current_page, ncall, pool_lock, reentry, capacity, recent, allocated>>

\* insert, lines 45-47: install the new leaf as the root and return Ok
SetRoot(t) ==
  /\ pc[t] = "new_root"
  /\ root' = Some(current_page[t])
  /\ Return(t, "", None)
  /\ UNCHANGED <<heap, pool, lru_queue, file, ncalls, last, call, current_page, ncall, wlocks,
                 poisoned, pool_lock, reentry, capacity, recent, allocated>>

\* find_leaf_page, lines 93-96: read the root pointer
FindRoot(t) ==
  /\ pc[t] = "find_root"
  /\ IF root = None
     THEN Return(t, "The tree is empty", None) /\ UNCHANGED current_page
     ELSE /\ current_page' = [current_page EXCEPT ![t] = root[1]]
          /\ Goto(t, "find_loop")
          /\ UNCHANGED <<ret, first>>
  /\ UNCHANGED <<tree_vars, ncalls, last, call, ncall, wlocks, poisoned, pool_lock, reentry, capacity, recent, allocated>>

\* find_leaf_page, lines 98-128: one turn of the loop.  At a leaf the loop ends;
\* at an internal page the child is fetched with get_page, under pool_and_lru.
FindLoop(t) ==
  /\ pc[t] = "find_loop"
  /\ LockRequest(t, current_page[t]) # "wait"
  /\ IF LockRequest(t, current_page[t]) = "panic"
     THEN Panic(t) /\ UNCHANGED <<tree_vars, current_page, ret, first>>
     ELSE IF heap[current_page[t]].node_type = "Leaf"
     THEN /\ Goto(t, IF call[t].op = "insert" THEN "leaf_lock" ELSE "search_leaf")
          /\ UNCHANGED <<tree_vars, current_page, ret, first, wlocks, poisoned>>
     ELSE /\ pool_lock = 0
          /\ \E pick \in Picks :
               LET data == heap[current_page[t]]
                   idx == child_index(data.keys, call[t].key, pick)
               IN IF idx >= Len(data.children)
                  THEN /\ Return(t, "Invalid child index", None)
                       /\ UNCHANGED <<tree_vars, current_page>>
                  ELSE \E g \in {BufferPool_get_page(World(pick), data.children[idx + 1])} :
                          /\ Install(g.w)
                          /\ IF g.w.err # ""
                             THEN Return(t, g.w.err, None) /\ UNCHANGED current_page
                             ELSE /\ current_page' = [current_page EXCEPT ![t] = g.page]
                                  /\ UNCHANGED <<pc, ret, first>>
          /\ UNCHANGED <<wlocks, poisoned>>
  /\ UNCHANGED <<ncalls, last, call, ncall, pool_lock, reentry, capacity, recent, allocated>>

\* insert, lines 53-56: write-lock the leaf and insert the pair; the guard
\* lives to line 62
LeafLock(t) ==
  /\ pc[t] = "leaf_lock"
  /\ LockRequest(t, current_page[t]) # "wait"
  /\ IF LockRequest(t, current_page[t]) = "panic"
     THEN Panic(t) /\ UNCHANGED heap
     ELSE /\ \E pick \in Picks :
               heap' = [heap EXCEPT ![current_page[t]] =
                          leaf_insert(@, call[t].key, call[t].value, pick)]
          /\ wlocks' = wlocks \cup {<<t, current_page[t]>>}
          /\ Goto(t, "leaf_write_id")
          /\ UNCHANGED poisoned
  /\ UNCHANGED <<root, pool, lru_queue, file, hist_vars, last, call, current_page, ret, ncall,
                 pool_lock, reentry, capacity, recent, allocated>>

\* search, lines 83-88: read-lock the leaf and look the key up
SearchLeaf(t) ==
  /\ pc[t] = "search_leaf"
  /\ LockRequest(t, current_page[t]) # "wait"
  /\ IF LockRequest(t, current_page[t]) = "panic"
     THEN Panic(t) /\ UNCHANGED <<ret, first>>
     ELSE /\ \E pick \in Picks :
               Return(t, "", leaf_lookup(heap[current_page[t]], call[t].key, pick))
          /\ UNCHANGED <<wlocks, poisoned>>
  /\ UNCHANGED <<tree_vars, ncalls, last, call, current_page, ncall, pool_lock, reentry, capacity, recent, allocated>>

\* search, lines 73-80: read the root pointer; an empty tree holds no key
SearchRoot(t) ==
  /\ pc[t] = "search_root"
  /\ IF root = None THEN Return(t, "", None)
     ELSE Goto(t, "find_root") /\ UNCHANGED <<ret, first>>
  /\ UNCHANGED <<tree_vars, ncalls, last, call, current_page, ncall, wlocks, poisoned, pool_lock,
                 reentry, capacity, recent, allocated>>

\* what a thread does inside a call
Step(t) ==
  \/ InsertRoot(t) \/ AllocLock(t) \/ AllocStore(t) \/ NewLeafFill(t)
  \/ WritePageId(t) \/ WritePageData(t) \/ SetRoot(t)
  \/ FindRoot(t) \/ FindLoop(t) \/ LeafLock(t)
  \/ SearchRoot(t) \/ SearchLeaf(t)

Next == \E t \in Threads : Call(t) \/ Step(t)

Spec == Init /\ [][Next]_vars

\* Every thread that can take a step of its call eventually takes one.
FairSpec == Spec /\ \A t \in Threads : WF_vars(Step(t))

\* One thread alone.
Next1 == Call(1) \/ Step(1)

Spec1 == Init /\ [][Next1]_vars

FairSpec1 == Spec1 /\ WF_vars(Step(1))

\* ----------------------------------------------------------------- AscSpec
\* One caller inserts the keys 1, 2, 3, ... in ascending order, as
\* test_single_thread_insert_and_search does, far enough for the pool to fill;
\* then it searches the first or the last key.
AscInsert ==
  /\ last.op # "search"
  /\ last.key < MaxAsc
  /\ \E w \in {insert(World(pick), last.key + 1, ValueOf(last.key + 1, 0)) : pick \in Picks} :
        /\ Install(w)
        /\ last' = [op |-> "insert", key |-> last.key + 1, err |-> w.err, value |-> None]
  /\ UNCHANGED <<ncalls, first>>
  /\ UNCHANGED thread_vars

AscSearch ==
  \E key \in {1, last.key} :
     /\ last.op = "insert"
     /\ \E s \in {search(World(pick), key) : pick \in Picks} :
           /\ Install(s.w)
           /\ last' = [op |-> "search", key |-> key, err |-> s.w.err, value |-> s.value]
     /\ UNCHANGED <<ncalls, first>>
     /\ UNCHANGED thread_vars

AscNext == AscInsert \/ AscSearch

AscSpec == TreeInit /\ [][AscNext]_vars

\* ------------------------------------------------------------------ claims
\* every thread is between two calls
Quiescent == \A t \in Threads : pc[t] = "idle"

\* what search(key) finds in this state, for each match binary_search may report
Found(key) == {search(World(pick), key).value : pick \in Picks}

\* C1: with one thread, an insert of a key not inserted before returns, and
\* from then on search finds the value of every inserted key and None for
\* every key never inserted.
C1_SingleThread ==
  \A k \in ThreadKeys :
     (pc[1] = "insert_root" /\ call[1].key = k /\ ncalls[k] = 1)
       ~> (/\ pc[1] = "idle"
           /\ Found(k) = {Some(ValueOf(k, 0))}
           /\ \A j \in ThreadKeys : ncalls[j] = 0 => Found(j) = {None})

\* C2: every call of insert or search eventually returns.
C2_EveryCallReturns ==
  \A t \in Threads : (pc[t] # "idle") ~> (pc[t] = "idle")

\* C3: when every key was inserted at most once and all calls have returned,
\* search finds the value of every inserted key.
C3_DisjointInserts ==
  (Quiescent /\ \A k \in ThreadKeys : ncalls[k] <= 1)
    => \A k \in ThreadKeys : ncalls[k] = 1 => Found(k) = {Some(ValueOf(k, 0))}

\* C4: an insert that reaches a leaf holding its key returns DuplicateKey and
\* changes no page, not the root pointer and not the file.
C4_DuplicateRejected ==
  [][\A t \in Threads :
        (/\ pc[t] = "leaf_lock"
         /\ pc'[t] # "leaf_lock"
         /\ LockRequest(t, current_page[t]) = "granted"
         /\ \E i \in 1..Len(heap[current_page[t]].keys) :
               heap[current_page[t]].keys[i] = call[t].key)
          => (/\ heap' = heap
              /\ root' = root
              /\ file' = file
              /\ pc'[t] = "idle"
              /\ ret'[t].err = "DuplicateKey")]_vars

\* C5: a search of k called after an insert of k has succeeded and a later
\* insert of k has been called returns the value of the first insert.
C5_FirstValueKept ==
  \A t \in Threads, k \in ThreadKeys :
     (/\ pc[t] = "search_root"
      /\ call[t].key = k
      /\ first[k] # None
      /\ \E u \in Threads : call[u].op = "insert" /\ call[u].key = k /\ call[u].dup)
       ~> (pc[t] = "idle" /\ ret[t].op = "search" /\ ret[t].key = k
             /\ ret[t].value = first[k])

\* C6: after any sequence of completed inserts every page other than the root
\* holds at least ceil(ORDER / 2) - 1 and at most ORDER - 1 keys.
C6_FanOut ==
  (Quiescent /\ root # None) =>
    \A id \in PageIds \ {RootId} :
       /\ Len(PageOf(id).keys) >= (ORDER + 1) \div 2 - 1
       /\ Len(PageOf(id).keys) <= ORDER - 1

\* C6 witness: after an internal split, a full leaf next to an internal page
\* that is not the root and holds the minimum of one key.
C6_Witness ==
  /\ root # None
  /\ \E id \in TreePages \ {RootId} :
        PageOf(id).node_type = "Internal" /\ Len(PageOf(id).keys) = (ORDER + 1) \div 2 - 1
  /\ \E id \in TreeLeaves : Len(PageOf(id).keys) = ORDER - 1

\* C7: after any sequence of completed inserts every internal page has exactly
\* one more child id than keys.
C7_ChildCount ==
  Quiescent =>
    \A id \in PageIds :
       PageOf(id).node_type = "Internal"
         => Len(PageOf(id).children) = Len(PageOf(id).keys) + 1

\* C7 witness: a root created over the two halves of an internal split.
C7_Witness ==
  /\ root # None
  /\ PageOf(RootId).node_type = "Internal"
  /\ Len(PageOf(RootId).children) = 2
  /\ \A i \in 1..Len(PageOf(RootId).children) :
        PageOf(PageOf(RootId).children[i]).node_type = "Internal"

\* C8: the next links from the leftmost leaf visit every leaf of the tree once,
\* end at a leaf without next, and the keys met are strictly ascending.
C8_LeafChain ==
  (Quiescent /\ root # None) =>
    /\ Len(LeafChain) = Cardinality(TreeLeaves)
    /\ {LeafChain[i] : i \in 1..Len(LeafChain)} = TreeLeaves
    /\ PageOf(LeafChain[Len(LeafChain)]).next = None
    /\ StrictlyAscending(ChainKeys)

\* C9: after every completed insert every child of an internal page names
\* that page as its parent.
C9_ParentIds ==
  Quiescent =>
    \A id \in PageIds :
       \A i \in 1..Len(PageOf(id).children) :
          /\ PageOf(id).children[i] \in PageIds
          /\ PageOf(PageOf(id).children[i]).parent_id = Some(id)

\* C10: after every completed insert the root page has no parent, and it is
\* the only allocated page without one.
C10_OneRoot ==
  (Quiescent /\ root # None) =>
    \A id \in PageIds : (PageOf(id).parent_id = None) <=> (id = RootId)

\* the record in the slot of page id in the file
DiskOf(id) == Decode(file[id + 1]).data

\* C11: after every completed insert the record on disk of every cached page
\* equals the cached instance in every field.
C11_WriteThrough ==
  Quiescent => \A id \in DOMAIN pool \cap PageIds : DiskOf(id) = heap[pool[id]]

\* --------------------------------------------------------------- SweepSpec
\* One caller, as in test_single_thread_insert_and_search with more keys:
\* it inserts 1..MaxAsc in ascending order, searches 1..MaxAsc in ascending
\* order, and then inserts MaxMore further keys.
SweepSearch ==
  /\ \/ last.op = "insert" /\ last.key = MaxAsc
     \/ last.op = "search" /\ last.key < MaxAsc
  /\ \E key \in {IF last.op = "search" THEN last.key + 1 ELSE 1} :
       \E s \in {search(World(pick), key) : pick \in Picks} :
          /\ Install(s.w)
          /\ last' = [op |-> "search", key |-> key, err |-> s.w.err, value |-> s.value]
  /\ UNCHANGED <<ncalls, first>>
  /\ UNCHANGED thread_vars

SweepInsert ==
  /\ \/ last.op = "search" /\ last.key = MaxAsc
     \/ last.op = "insert" /\ last.key > MaxAsc /\ last.key < MaxAsc + MaxMore
  /\ \E key \in {IF last.op = "search" THEN MaxAsc + 1 ELSE last.key + 1} :
       \E w \in {insert(World(pick), key, ValueOf(key, 0)) : pick \in Picks} :
          /\ Install(w)
          /\ last' = [op |-> "insert", key |-> key, err |-> w.err, value |-> None]
  /\ UNCHANGED <<ncalls, first>>
  /\ UNCHANGED thread_vars

SweepNext == AscInsert \/ SweepSearch \/ SweepInsert

SweepSpec == TreeInit /\ [][SweepNext]_vars

\* ---------------------------------------------------------------- PoolSpec
\* Threads call get_page and allocate_page of one BufferPool built with a
\* small capacity.  A step is one critical section of pool_and_lru.
PoolInit ==
  /\ EmptyTree
  /\ ThreadsIdle
  /\ reentry = "deadlock"
  /\ capacity = PoolCap
  /\ recent = <<>>
  /\ allocated = <<>>

\* history: id becomes the latest access
touch(q, id) == <<id>> \o SelectSeq(q, LAMBDA x : x # id)

\* allocate_page, lines 121-154: pool_and_lru is held from the first statement
\* to the return
PoolAllocate(t) ==
  /\ pc[t] = "idle"
  /\ ncall[t] < MaxPoolCalls
  /\ Len(file) < MaxPages
  /\ pool_lock = 0
  /\ \E node_type \in {"Leaf", "Internal"} :
       \E a \in {BufferPool_allocate_page(World("lowest"), node_type)} :
          /\ Install(a.w)
          /\ ret' = [ret EXCEPT ![t] =
                       [op |-> "allocate",
                        key |-> IF a.w.err = "" THEN a.w.heap[a.page].id ELSE 0,
                        err |-> a.w.err,
                        value |-> IF a.w.err = "" THEN Some(a.page) ELSE None]]
          /\ recent' = IF a.w.err = "" THEN touch(recent, a.w.heap[a.page].id) ELSE recent
          /\ allocated' = IF a.w.err = "" THEN Append(allocated, a.w.heap[a.page].id)
                          ELSE allocated
  /\ ncall' = [ncall EXCEPT ![t] = @ + 1]
  /\ UNCHANGED <<hist_vars, last, pc, call, current_page, wlocks, poisoned, pool_lock,
                 reentry, capacity>>

\* get_page, lines 40-56: a hit promotes the id and returns the cached
\* instance; a miss goes on to read the file
PoolGet(t) ==
  /\ pc[t] = "idle"
  /\ ncall[t] < MaxPoolCalls
  /\ pool_lock = 0
  /\ \E page_id \in 0..Len(file) :
       IF page_id \in DOMAIN pool
       THEN \E g \in {BufferPool_get_page(World("lowest"), page_id)} :
               /\ Install(g.w)
               /\ ret' = [ret EXCEPT ![t] = [op |-> "get", key |-> page_id, err |-> g.w.err,
                                             value |-> Some(g.page)]]
               /\ recent' = touch(recent, page_id)
               /\ UNCHANGED <<pc, call>>
       ELSE /\ call' = [call EXCEPT ![t] = [op |-> "get", key |-> page_id, value |-> 0,
                                            dup |-> FALSE]]
            /\ Goto(t, "get_read")
            /\ UNCHANGED <<tree_vars, ret, recent>>
  /\ ncall' = [ncall EXCEPT ![t] = @ + 1]
  /\ UNCHANGED <<hist_vars, last, current_page, wlocks, poisoned, pool_lock, reentry,
                 capacity, allocated>>

\* get_page, lines 63-73: under pool_and_lru and storage, read the record and
\* build a new instance from it
GetRead(t) ==
  /\ pc[t] = "get_read"
  /\ pool_lock = 0
  /\ \E r \in {StorageEngine_read_page(file, call[t].key)} :
       IF r.err # ""
       THEN Return(t, r.err, None) /\ UNCHANGED <<heap, current_page>>
       ELSE /\ heap' = Append(heap, r.data)
            /\ current_page' = [current_page EXCEPT ![t] = Len(heap) + 1]
            /\ Goto(t, "get_insert")
            /\ UNCHANGED <<ret, first>>
  /\ UNCHANGED <<root, pool, lru_queue, file, ncalls, last, call, ncall, wlocks, poisoned,
                 pool_lock, reentry, capacity, recent, allocated>>

\* get_page, lines 80-98: under pool_and_lru, evict at capacity, insert the
\* new instance and return it
GetInsert(t) ==
  /\ pc[t] = "get_insert"
  /\ pool_lock = 0
  /\ Install(pool_insert(World("lowest"), heap[current_page[t]].id, current_page[t]))
  /\ Return(t, "", Some(current_page[t]))
  /\ recent' = touch(recent, heap[current_page[t]].id)
  /\ UNCHANGED <<ncalls, last, call, current_page, ncall, wlocks, poisoned, pool_lock,
                 reentry, capacity, allocated>>

PoolNext == \E t \in Threads : PoolAllocate(t) \/ PoolGet(t) \/ GetRead(t) \/ GetInsert(t)

PoolSpec == PoolInit /\ [][PoolNext]_vars

\* the threads inside a call
InCall == {t \in Threads : pc[t] \notin {"idle", "panicked"}}

\* the instances still referenced: the cache's entries, the root handle the
\* tree keeps, and the handle a thread inside a call holds
Live ==
  ({pool[id] : id \in DOMAIN pool}
     \cup (IF root = None THEN {} ELSE {root[1]})
     \cup {current_page[t] : t \in InCall}) \ {0}

\* C12: at most one live in-memory instance exists per page id.
C12_OneInstance ==
  \A h1 \in Live, h2 \in Live : heap[h1].id = heap[h2].id => h1 = h2

\* C14: the cache never holds more entries than its capacity
C14_Capacity == Cardinality(DOMAIN pool) <= capacity

\* the outcome of get_page(page_id) called in the current state
GetNow(page_id) == BufferPool_get_page(World("lowest"), page_id)

\* C13: get of a cached id returns the instance the cache holds, makes the id
\* the most recently used entry, leaves the cached ids as they are and builds
\* no instance from the file.
C13_GetHit ==
  \A page_id \in DOMAIN pool :
     /\ GetNow(page_id).w.err = ""
     /\ GetNow(page_id).page = pool[page_id]
     /\ GetNow(page_id).w.lru_queue[1] = page_id
     /\ GetNow(page_id).w.pool = pool
     /\ GetNow(page_id).w.heap = heap
     /\ GetNow(page_id).w.file = file

\* C13 witness: a get has returned the cached instance of a page that was not
\* the most recently used one, and no get has built an instance from the file
C13_Witness ==
  \E t \in Threads :
     /\ ret[t].op = "get" /\ ret[t].err = ""
     /\ pc = [u \in Threads |-> "idle"]
     /\ Len(heap) = Len(file)
     /\ Len(lru_queue) = 2
     /\ lru_queue = <<0, 1>>
     /\ ret[t].key = 0
     /\ ret[t].value = Some(pool[0])

\* the cached id whose latest access is the oldest
Oldest ==
  LET cached == SelectSeq(recent, LAMBDA x : x \in DOMAIN pool)
  IN cached[Len(cached)]

\* C15: an insertion into a cache at capacity first removes exactly one entry,
\* the cached id whose most recent access is the oldest, and then inserts the
\* new id.
C15_StrictLRU ==
  [][(Cardinality(DOMAIN pool) >= capacity /\ pool' # pool)
       => DOMAIN pool' = (DOMAIN pool \ {Oldest}) \cup {lru_queue'[1]}]_vars

\* C16: every allocate_page returns a page whose id is the number of pages in
\* the file before the call and grows the file by one page; the id is larger
\* than every id returned before, also when several threads allocate.
C16_AllocateIds ==
  [][allocated' # allocated
       => /\ Len(allocated') = Len(allocated) + 1
          /\ allocated'[Len(allocated')] = Len(file)
          /\ Len(file') = Len(file) + 1
          /\ \A i \in 1..Len(allocated) : allocated[i] < allocated'[Len(allocated')]
          /\ \E t \in Threads :
               /\ ret'[t].op = "allocate" /\ ret'[t].err = ""
               /\ heap'[ret'[t].value[1]].id = Len(file)
               /\ Decode(file'[Len(file')]).data = heap'[ret'[t].value[1]]]_vars

\* C16 witness: both threads have allocated, one of them while the other was
\* inside a get, and three ids have been returned
C16_Witness ==
  /\ Len(allocated) = 3
  /\ \A t \in Threads : ret[t].op = "allocate"
  /\ \E t \in Threads : pc[t] = "get_insert"

\* --------------------------------------------------------------- StoreSpec
\* One client calls write_page and read_page of a StorageEngine on an empty
\* file with records of its own making.
StoreValues(n) == [i \in 1..n |-> 100 + i]

\* the largest number of values of a record without keys that fits in a page
MaxFit == (PAGE_SIZE - 34) \div 8

StoreRecords ==
  {[id |-> id, node_type |-> node_type, keys |-> keys,
    children |-> IF node_type = "Internal" THEN <<3, 4>> ELSE <<>>,
    values |-> StoreValues(n), next |-> next, parent_id |-> parent_id] :
     id \in 0..MaxSlot, node_type \in {"Leaf", "Internal"}, keys \in {<<>>, <<-1, 2>>},
     n \in {0, 2, MaxFit, MaxFit + 1}, next \in {None, Some(1)},
     parent_id \in {None, Some(2)}}

StoreInit ==
  /\ EmptyTree
  /\ ThreadsIdle
  /\ reentry = "deadlock"
  /\ capacity = POOL_CAPACITY
  /\ recent = <<>>
  /\ allocated = <<>>

StoreWrite ==
  /\ ncall[1] < MaxWrites
  /\ \E page_data \in StoreRecords :
       \E r \in {StorageEngine_write_page(file, page_data)} :
          /\ file' = r.file
          /\ last' = [op |-> "write", key |-> page_data.id, err |-> r.err,
                      value |-> Some(page_data)]
  /\ ncall' = [ncall EXCEPT ![1] = @ + 1]
  /\ UNCHANGED <<root, heap, pool, lru_queue, hist_vars, pc, call, current_page, ret,
                 wlocks, poisoned, pool_lock, reentry, capacity, recent, allocated>>

StoreRead ==
  /\ last.op = "write"
  /\ \E page_id \in 0..(MaxSlot + 1) :
       \E r \in {StorageEngine_read_page(file, page_id)} :
          last' = [op |-> "read", key |-> page_id, err |-> r.err,
                   value |-> IF r.err = "" THEN Some(r.data) ELSE None]
  /\ UNCHANGED <<tree_vars, hist_vars, thread_vars>>

StoreNext == StoreWrite \/ StoreRead

StoreSpec == StoreInit /\ [][StoreNext]_vars

\* C17: after a write of a record that fits, read_page of its id returns the
\* record in every field, and the write leaves what read_page returns for
\* every other slot of the file as it was.
C17_RoundTrip ==
  [][last'.op = "write"
       => /\ last'.err = ""
               => StorageEngine_read_page(file', last'.key)
                    = [err |-> "", data |-> last'.value[1]]
          /\ \A j \in 0..(Len(file) - 1) :
               j # last'.key
                 => StorageEngine_read_page(file', j) = StorageEngine_read_page(file, j)]_vars

\* C17 witness: two records were written to slots 0 and 1, and a read of
\* slot 0 has returned the record with the most values that fit
C17_Witness ==
  /\ last.op = "read" /\ last.err = "" /\ last.key = 0
  /\ Len(last.value[1].values) = MaxFit
  /\ last.value[1].next = Some(1)
  /\ ncall[1] = 2
  /\ Len(file) = 2
  /\ Decode(file[2]).data.keys = <<-1, 2>>
  /\ Decode(file[2]).data.parent_id = Some(2)

\* C18: write_page of a record whose encoding is longer than PAGE_SIZE
\* returns an error and leaves the file as it was.
C18_TooLarge ==
  [][(last'.op = "write" /\ EncodedLen(last'.value[1]) > PAGE_SIZE)
       => last'.err # "" /\ file' = file]_vars

\* C18 witness: a write of a record two bytes over PAGE_SIZE has failed on a
\* file that holds a record
C18_Witness ==
  /\ last.op = "write" /\ last.err = "Page size exceeded"
  /\ EncodedLen(last.value[1]) = PAGE_SIZE + 2
  /\ Len(file) = 1

\* C19: a get of an id that is not cached and lies beyond the end of the file
\* returns an error; neither its lookup nor its failed read changes the cache
\* mapping, the LRU order or the file.
C19_GetBeyondEnd ==
  [][\A t \in Threads :
       /\ (pc[t] = "idle" /\ pc'[t] = "get_read")
            => UNCHANGED <<pool, lru_queue, file>>
       /\ (pc[t] = "get_read" /\ pc'[t] # "get_read" /\ call[t].key >= Len(file))
            => /\ pc'[t] = "idle"
               /\ ret'[t].op = "get" /\ ret'[t].key = call[t].key /\ ret'[t].err # ""
               /\ UNCHANGED <<pool, lru_queue, file, heap>>]_vars

\* C19 witness: a get of the id one past the last page has failed while pages
\* are cached
C19_Witness ==
  \E t \in Threads :
     /\ pc[t] = "idle"
     /\ ret[t].op = "get" /\ ret[t].err = "UnexpectedEof"
     /\ ret[t].key = Len(file)
     /\ Len(lru_queue) = 2

\* a step of a search: the whole call where calls are single steps, one step
\* of a thread inside search where they are not
SearchStep ==
  \/ last' # last /\ last'.op = "search"
  \/ \E t \in InCall :
       /\ call[t].op = "search"
       /\ pc'[t] # pc[t] \/ current_page'[t] # current_page[t]

\* C20: a search takes no write guard and changes no instance's content, not
\* the root pointer and not the file; an instance it adds is the record read
\* from the file.
C20_SearchFrame ==
  [][SearchStep
       => /\ wlocks' = wlocks
          /\ poisoned' = poisoned
          /\ root' = root
          /\ file' = file
          /\ Len(heap') >= Len(heap)
          /\ \A h \in DOMAIN heap : heap'[h] = heap[h]
          /\ \A h \in DOMAIN heap' \ DOMAIN heap : heap'[h] = DiskOf(heap'[h].id)]_vars

\* C20 witness: the last search of the sweep has found its key in a tree of
\* more pages than the cache holds, after searches have rebuilt instances from
\* the file and pushed the root's id out of the cache
C20_Witness ==
  /\ last.op = "search" /\ last.key = MaxAsc
  /\ last.value = Some(ValueOf(MaxAsc, 0))
  /\ Len(file) > capacity
  /\ Len(heap) > Len(file)
  /\ RootId \notin DOMAIN pool

\* the keys a descent may be made with
Probes == 0..(MaxKey + 1)

\* the instances of internal pages
Internals == {h \in DOMAIN heap : heap[h].node_type = "Internal"}

\* the smallest index, counted from 0, with K[i] >= k, or the number of keys
FirstAtLeast(K, k) ==
  LET s == {i \in 1..Len(K) : K[i] >= k}
  IN IF s = {} THEN Len(K) ELSE MinOf(s) - 1

\* C21 as stated: at an internal page the descent takes children[i] for the
\* smallest i with K[i] >= k, or the last child.
C21_FirstAtLeast ==
  \A h \in Internals : \A k \in Probes, pick \in Picks :
     child_index(heap[h].keys, k, pick) = FirstAtLeast(heap[h].keys, k)

\* C21 amended: at an internal page the descent of a key equal to a separator
\* takes the child right of a separator equal to it; the descent of any other
\* key takes children[i] for the smallest i with K[i] > k, or the last child.
C21_RightOfEqual ==
  \A h \in Internals : \A k \in Probes, pick \in Picks :
     LET K == heap[h].keys
         i == child_index(K, k, pick)
     IN /\ i < Len(heap[h].children)
        /\ IF \E j \in 1..Len(K) : K[j] = k
           THEN i >= 1 /\ K[i] = k
           ELSE i = FirstAtLeast(K, k) /\ \A j \in 1..i : K[j] < k

\* C21 witness: a search has descended from an internal root with two
\* separators by the key of the first one and found it
C21_Witness ==
  /\ root # None
  /\ heap[root[1]].node_type = "Internal"
  /\ Len(heap[root[1]].keys) = 2
  /\ last.op = "search" /\ last.key = heap[root[1]].keys[1]
  /\ last.value = Some(ValueOf(last.key, 0))

\* the ids of the internal pages of the tree
TreeInternals == {id \in TreePages : PageOf(id).node_type = "Internal"}

\* the first key of the leftmost leaf below page id
FirstKeyBelow(id) == PageOf(Leftmost(id, Len(file))).keys[1]

\* C22: at an internal page a probe key equal to the separator K[i] is routed
\* to children[i+1], and the keys below that child start with the separator.
C22_EqualGoesRight ==
  Quiescent =>
    \A id \in TreeInternals : \A i \in 1..Len(PageOf(id).keys), pick \in Picks :
       /\ child_index(PageOf(id).keys, PageOf(id).keys[i], pick) = i
       /\ i + 1 <= Len(PageOf(id).children)
       /\ FirstKeyBelow(PageOf(id).children[i + 1]) = PageOf(id).keys[i]

\* the keys stored in the pages of the subtree under page id
SubtreeKeys(id) ==
  UNION {{PageOf(p).keys[j] : j \in 1..Len(PageOf(p).keys)} : p \in Reach({id}, {})}

\* C23: after every completed insert, for every internal page P and index i,
\* every key in the subtree under P.children[i] is less than P.keys[i] and
\* at least P.keys[i-1], where those separators exist.
C23_SeparatorBounds ==
  Quiescent =>
    \A id \in TreeInternals : \A i \in 1..Len(PageOf(id).children) :
       \A k \in SubtreeKeys(PageOf(id).children[i]) :
          /\ i <= Len(PageOf(id).keys) => k < PageOf(id).keys[i]
          /\ i > 1 => k >= PageOf(id).keys[i - 1]

\* C24: after any sequence of completed inserts the keys of every page are
\* strictly ascending, and every leaf has one value per key, the value that
\* was inserted with that key.
C24_PageKeys ==
  Quiescent =>
    \A id \in PageIds :
       /\ StrictlyAscending(PageOf(id).keys)
       /\ PageOf(id).node_type = "Leaf"
            => /\ Len(PageOf(id).values) = Len(PageOf(id).keys)
               /\ \A i \in 1..Len(PageOf(id).keys) :
                     \E n \in 0..MaxDup :
                        /\ n < ncalls[PageOf(id).keys[i]]
                        /\ PageOf(id).values[i] = ValueOf(PageOf(id).keys[i], n)

\* the content of page id after the step
PageAfter(id) == PageOf(id)'

\* the leftmost leaf below page id after the step
LeftmostAfter(id) == Leftmost(id, Len(file))'

\* an insert into a tree splits a leaf: split_leaf_page allocates the first
\* page of the call, and that page is a leaf
LeafSplitStep ==
  /\ root # None
  /\ last'.op = "insert"
  /\ Len(file') > Len(file)

\* C25: a leaf split of a leaf with n keys leaves the first n \div 2 keys and
\* values in the old leaf and moves the others, in order, to the new leaf; the
\* new leaf takes the old leaf's next link, the old leaf points to the new
\* one, and the new leaf's first key is a separator right of which the new
\* leaf is found.
C25_LeafSplit ==
  [][LeafSplitStep =>
       \E old \in PageIds, new \in {Len(file)} :
          \E n \in {Len(PageOf(old).keys) + 1} :
             /\ \A o \in PageIds : (PageAfter(o).next = Some(new)) <=> (o = old)
             /\ PageOf(old).node_type = "Leaf"
             /\ PageAfter(new).node_type = "Leaf"
             /\ PageAfter(new).id = new
             /\ Len(PageAfter(old).keys) = n \div 2
             /\ \E pos \in 0..(n - 1) :
                   /\ PageAfter(old).keys \o PageAfter(new).keys
                        = VecInsert(PageOf(old).keys, pos, last'.key)
                   /\ PageAfter(old).values \o PageAfter(new).values
                        = VecInsert(PageOf(old).values, pos,
                                    ValueOf(last'.key, IF last'.key \in Keys
                                                       THEN ncalls[last'.key] ELSE 0))
             /\ Len(PageAfter(old).values) = n \div 2
             /\ PageAfter(new).next = PageOf(old).next
             /\ \E p \in 0..(Len(file') - 1) :
                   /\ PageAfter(p).node_type = "Internal"
                   /\ \E j \in 1..Len(PageAfter(p).keys) :
                         /\ PageAfter(p).keys[j] = PageAfter(new).keys[1]
                         /\ j + 1 <= Len(PageAfter(p).children)
                         /\ \E c \in {PageAfter(p).children[j + 1]} :
                               LeftmostAfter(c) = new]_vars

\* C25 witness: the last insert split a leaf in the middle of the chain, then
\* its parent, the root, and made a new root
C25_Witness ==
  /\ last.op = "insert" /\ last.err = ""
  /\ Len(file) >= 5
  /\ RootId = Len(file) - 1
  /\ PageOf(Len(file) - 2).node_type = "Internal"
  /\ PageOf(Len(file) - 3).node_type = "Leaf"
  /\ PageOf(Len(file) - 3).next # None
  /\ \E i \in 1..Len(PageOf(Len(file) - 3).keys) :
        PageOf(Len(file) - 3).keys[i] = last.key

\* the elements of a sequence
Range(s) == {s[i] : i \in 1..Len(s)}

\* the internal pages split off by the step: pages allocated after the first
\* one of the call that are internal and are not the root afterwards
SplitOff ==
  {N \in (Len(file) + 1)..(Len(file') - 1) :
     PageAfter(N).node_type = "Internal" /\ N # RootId'}

RootIdAfter == RootId'

\* C27: an insert into a tree changes the root pointer exactly when it splits
\* the page without a parent, the root; the new root is a newly allocated
\* internal page holding the separator and the children [old page, new page],
\* and both children name it as their parent when the insert returns.
C27_NewRoot ==
  [][(root # None /\ last'.op = "insert") =>
       \E old \in {RootId}, R \in {RootIdAfter} :
          /\ (Len(PageAfter(old).keys) < Len(PageOf(old).keys)) => root' # root
          /\ (root' # root) =>
               /\ PageOf(old).parent_id = None
               /\ Len(PageAfter(old).keys) < Len(PageOf(old).keys)
               /\ R = Len(file') - 1
               /\ R >= Len(file) + 1
               /\ PageAfter(R).node_type = "Internal"
               /\ PageAfter(R).parent_id = None
               /\ Len(PageAfter(R).keys) = 1
               /\ Len(PageAfter(R).children) = 2
               /\ PageAfter(R).children[1] = old
               /\ PageAfter(R).children[2] \in Len(file)..(R - 1)
               /\ \E new \in {PageAfter(R).children[2]}, key \in {PageAfter(R).keys[1]} :
                     /\ PageAfter(old).parent_id = Some(R)
                     /\ PageAfter(new).parent_id = Some(R)
                     /\ PageAfter(new).node_type = PageOf(old).node_type
                     /\ IF PageOf(old).node_type = "Leaf"
                        THEN key = PageAfter(new).keys[1]
                        ELSE Len(PageAfter(old).keys \o <<key>> \o PageAfter(new).keys)
                               = Len(PageOf(old).keys) + 1]_vars

\* C27 witness: the last insert split a leaf and the internal root above it
\* and set the root pointer to a new root over the two internal pages; an
\* earlier insert did the same over two leaves
C27_Witness ==
  /\ last.op = "insert" /\ last.err = ""
  /\ RootId = Len(file) - 1
  /\ Len(PageOf(RootId).children) = 2
  /\ PageOf(PageOf(RootId).children[1]).node_type = "Internal"
  /\ PageOf(PageOf(RootId).children[1]).id = 2
  /\ PageOf(PageOf(RootId).children[1]).parent_id = Some(RootId)
  /\ PageOf(PageOf(RootId).children[2]).parent_id = Some(RootId)

\* ---------------------------------------------------------------- LockSpec
\* Threads call get_page, allocate_page and write_page of one BufferPool and
\* take page content guards as the index does.  A step is one lock request or
\* the work done up to the next one.  The storage mutex and the read guards of
\* write_page are held exactly at the positions named below.
MaxLockCalls == 4

RECURSIVE CallsUpTo(_)
\* the calls started so far by the threads 1..n
CallsUpTo(n) == IF n = 0 THEN 0 ELSE ncall[n] + CallsUpTo(n - 1)

LockInit ==
  /\ EmptyTree
  /\ ThreadsIdle
  /\ reentry \in {"deadlock", "panic"}
  /\ capacity = PoolCap
  /\ recent = <<>>
  /\ allocated = <<>>

\* the positions at which a thread holds the storage mutex
StoragePcs == {"alloc_io", "get_io", "write_io"}

\* the positions at which a thread's next statement locks the storage mutex
StorageRequestPcs == {"alloc_storage", "get_storage", "write_storage"}

\* the positions at which a thread's next statement requests a content lock
ContentRequestPcs == {"write_id", "write_data", "page_lock"}

StorageFree == \A u \in Threads : pc[u] \notin StoragePcs

\* write_page holds the read guard of line 108 up to its return
Readers(h) == {u \in Threads : pc[u] \in {"write_storage", "write_io"} /\ current_page[u] = h}

\* a MutexGuard goes out of scope: the mutex is free again
\* variant of unlock that keeps the mutex locked
unlock_leak(owner, t) == owner

unlock(owner, t) == IF owner = t THEN 0 ELSE owner

\* a thread starts a call of the pool, or takes or drops a content guard
LockCall(t) ==
  /\ pc[t] = "idle"
  /\ CallsUpTo(NThreads) < MaxLockCalls
  /\ \E op \in {"get", "allocate", "write", "lock", "unlock"} :
       \E arg \in CASE op = "get" -> 0..Len(file)
                    [] op = "allocate" -> IF Len(file) < MaxPages THEN {0} ELSE {}
                    [] op = "write" -> DOMAIN heap
                    [] op = "lock" -> {h \in DOMAIN heap : \A l \in wlocks : l[1] # t}
                    [] OTHER -> {l[2] : l \in {m \in wlocks : m[1] = t}} :
          /\ call' = [call EXCEPT ![t] = [op |-> op, key |-> arg, value |-> 0, dup |-> FALSE]]
          /\ current_page' = [current_page EXCEPT ![t] =
                                IF op \in {"write", "lock", "unlock"} THEN arg ELSE 0]
          /\ Goto(t, CASE op = "get" -> "get_lock"
                       [] op = "allocate" -> "alloc_lock"
                       [] op = "write" -> "write_id"
                       [] op = "lock" -> "page_lock"
                       [] OTHER -> "page_unlock")
  /\ ncall' = [ncall EXCEPT ![t] = @ + 1]
  /\ UNCHANGED <<tree_vars, hist_vars, last, ret, wlocks, poisoned, pool_lock, reentry,
                 capacity, recent, allocated>>

\* get_page lines 41, 65 and 81, allocate_page line 121: lock pool_and_lru
PoolLock(t) ==
  /\ pc[t] \in {"get_lock", "get_lock2", "get_lock3", "alloc_lock"}
  /\ pool_lock = 0
  /\ pool_lock' = t
  /\ Goto(t, CASE pc[t] = "get_lock" -> "get_lookup"
               [] pc[t] = "get_lock2" -> "get_storage"
               [] pc[t] = "get_lock3" -> "get_insert"
               [] OTHER -> "alloc_storage")
  /\ UNCHANGED <<tree_vars, hist_vars, last, call, current_page, ret, ncall, wlocks, poisoned,
                 reentry, capacity, recent, allocated>>

\* get_page line 66, allocate_page line 125, write_page line 109: lock storage
StorageLock(t) ==
  /\ pc[t] \in StorageRequestPcs
  /\ StorageFree
  /\ Goto(t, CASE pc[t] = "get_storage" -> "get_io"
               [] pc[t] = "alloc_storage" -> "alloc_io"
               [] OTHER -> "write_io")
  /\ UNCHANGED <<tree_vars, hist_vars, last, call, current_page, ret, ncall, wlocks, poisoned,
                 pool_lock, reentry, capacity, recent, allocated>>

\* get_page, lines 42-56: a hit promotes the id and returns, a miss goes on;
\* either way the guard is dropped
GetLookup(t) ==
  /\ pc[t] = "get_lookup"
  /\ IF call[t].key \in DOMAIN pool
     THEN \E g \in {BufferPool_get_page(World("lowest"), call[t].key)} :
             /\ Install(g.w)
             /\ Return(t, "", Some(g.page))
     ELSE /\ Goto(t, "get_lock2")
          /\ UNCHANGED <<tree_vars, ret>>
  /\ pool_lock' = unlock(pool_lock, t)
  /\ UNCHANGED <<hist_vars, last, call, current_page, ncall, wlocks, poisoned, reentry,
                 capacity, recent, allocated>>

\* get_page, lines 67-73: read the record, drop both guards, build an instance
GetIo(t) ==
  /\ pc[t] = "get_io"
  /\ \E r \in {StorageEngine_read_page(file, call[t].key)} :
       IF r.err # ""
       THEN Return(t, r.err, None) /\ UNCHANGED <<heap, current_page>>
       ELSE /\ heap' = Append(heap, r.data)
            /\ current_page' = [current_page EXCEPT ![t] = Len(heap) + 1]
            /\ Goto(t, "get_lock3")
            /\ UNCHANGED ret
  /\ pool_lock' = unlock(pool_lock, t)
  /\ UNCHANGED <<root, pool, lru_queue, file, hist_vars, last, call, ncall, wlocks, poisoned,
                 reentry, capacity, recent, allocated>>

\* get_page, lines 84-98: evict at capacity, insert the instance, drop the guard
GetPoolInsert(t) ==
  /\ pc[t] = "get_insert"
  /\ Install(pool_insert(World("lowest"), heap[current_page[t]].id, current_page[t]))
  /\ Return(t, "", Some(current_page[t]))
  /\ pool_lock' = unlock(pool_lock, t)
  /\ UNCHANGED <<hist_vars, last, call, current_page, ncall, wlocks, poisoned, reentry,
                 capacity, recent, allocated>>

\* allocate_page, lines 126-154: append the record, drop the storage guard,
\* evict at capacity, insert the instance, drop the pool guard
AllocIo(t) ==
  /\ pc[t] = "alloc_io"
  /\ \E a \in {BufferPool_allocate_page(World("lowest"), "Leaf")} :
       /\ Install(a.w)
       /\ Return(t, a.w.err, IF a.w.err = "" THEN Some(a.page) ELSE None)
  /\ pool_lock' = unlock(pool_lock, t)
  /\ UNCHANGED <<hist_vars, last, call, current_page, ncall, wlocks, poisoned, reentry,
                 capacity, recent, allocated>>

\* write_page, line 103: read-lock the page for its id and drop the guard
\* write_page, line 108: read-lock the page and keep the guard
WriteRead(t) ==
  /\ pc[t] \in {"write_id", "write_data"}
  /\ LockRequest(t, current_page[t]) # "wait"
  /\ IF LockRequest(t, current_page[t]) = "panic"
     THEN Panic(t)
     ELSE /\ Goto(t, IF pc[t] = "write_id" THEN "write_data" ELSE "write_storage")
          /\ UNCHANGED <<wlocks, poisoned>>
  /\ UNCHANGED <<tree_vars, hist_vars, last, call, current_page, ret, ncall, pool_lock,
                 reentry, capacity, recent, allocated>>

\* write_page, line 110: write the record and drop both guards
WriteIo(t) ==
  /\ pc[t] = "write_io"
  /\ \E w \in {BufferPool_write_page(World("lowest"), current_page[t])} :
       /\ Install(w)
       /\ Return(t, w.err, None)
  /\ UNCHANGED <<hist_vars, last, call, current_page, ncall, wlocks, poisoned, pool_lock,
                 reentry, capacity, recent, allocated>>

\* index.rs, line 53: write-lock a page instance
PageLock(t) ==
  /\ pc[t] = "page_lock"
  /\ LockRequest(t, current_page[t]) = "granted"
  /\ Readers(current_page[t]) = {}
  /\ wlocks' = wlocks \cup {<<t, current_page[t]>>}
  /\ Return(t, "", None)
  /\ UNCHANGED <<tree_vars, hist_vars, last, call, current_page, ncall, poisoned, pool_lock,
                 reentry, capacity, recent, allocated>>

\* index.rs, line 62: the write guard goes out of scope
PageUnlock(t) ==
  /\ pc[t] = "page_unlock"
  /\ wlocks' = wlocks \ {<<t, current_page[t]>>}
  /\ Return(t, "", None)
  /\ UNCHANGED <<tree_vars, hist_vars, last, call, current_page, ncall, poisoned, pool_lock,
                 reentry, capacity, recent, allocated>>

LockStep(t) ==
  \/ PoolLock(t) \/ StorageLock(t) \/ GetLookup(t) \/ GetIo(t) \/ GetPoolInsert(t)
  \/ AllocIo(t) \/ WriteRead(t) \/ WriteIo(t) \/ PageLock(t) \/ PageUnlock(t)

LockNext == \E t \in Threads : LockCall(t) \/ LockStep(t)

LockSpec == LockInit /\ [][LockNext]_vars

\* C28: a thread that holds pool_and_lru is never at a statement that requests
\* a page content lock, and the steps it takes while holding it leave every
\* content guard and the content of every page instance as they were
C28_NoContentUnderPool ==
  [][\A t \in Threads :
       /\ pool_lock = t =>
            /\ pc[t] \notin ContentRequestPcs
            /\ pc'[t] # pc[t] =>
                 /\ wlocks' = wlocks
                 /\ \A h \in DOMAIN heap : heap'[h] = heap[h]
       /\ pool_lock' = t => pc'[t] \notin ContentRequestPcs]_vars

\* C28 witness: a thread holds pool_and_lru and is about to evict a page
\* whose content another thread holds write-locked
C28_Witness ==
  /\ pool_lock # 0
  /\ pc[pool_lock] \in {"get_insert", "alloc_io"}
  /\ Cardinality(DOMAIN pool) >= capacity
  /\ \E u \in Threads \ {pool_lock} : <<u, pool[lru_queue[Len(lru_queue)]]>> \in wlocks

\* C29: a thread that holds pool_and_lru neither requests nor holds the
\* storage mutex, and the steps it takes while holding it leave the file as
\* it was
C29_NoStorageUnderPool ==
  [][\A t \in Threads :
       pool_lock = t =>
         /\ pc[t] \notin StorageRequestPcs \cup StoragePcs
         /\ pc'[t] # pc[t] => file' = file]_vars

\* --------------------------------------------------------------- SplitSpec
\* One insert at a time, taken apart at the content guards of the split path:
\* the guard blocks of split_leaf_page and split_internal_page, the end of a
\* block, and the request for the parent's (or the new root's) write guard in
\* insert_into_parent.  As in TreeSpec, write_page inside a block is taken to
\* succeed although the thread holds the page's write guard.
SplitCallInit == [op |-> "none", key |-> 0, value |-> 0, dup |-> FALSE]

\* the locals of an insert: the key, and for the split in progress the pages
\* left and right, the separator going up and the parent
Locals(key, left, up_key, right) ==
  [op |-> "insert", key |-> key, value |-> ValueOf(key, 0), dup |-> FALSE,
   left |-> left, up_key |-> up_key, right |-> right, parent |-> 0]

\* the insert of thread t returns err (the empty string for Ok)
SplitReturn(t, key, err) ==
  /\ pc' = [pc EXCEPT ![t] = "idle"]
  /\ call' = [call EXCEPT ![t] = SplitCallInit]
  /\ current_page' = [current_page EXCEPT ![t] = 0]
  /\ last' = [op |-> "insert", key |-> key, err |-> err, value |-> None]

\* the guards of thread t on the pages in `pages` go out of scope
\* variant of drop_guards that keeps the guard of the newest page
drop_guards_late(locks, t, pages) == {l \in locks : ~(l[1] = t /\ l[2] = MinOf(pages))}

drop_guards(locks, t, pages) == {l \in locks : ~(l[1] = t /\ l[2] \in pages)}

\* the ? of Rust inside a step: the call returns the error
Fail(t, w) ==
  /\ Install(w)
  /\ SplitReturn(t, call[t].key, w.err)

\* split_leaf_page, lines 139-158: the new leaf and the two write_page calls
split_leaf_block(w, leaf) ==
  With(BufferPool_allocate_page(w, "Leaf"), LAMBDA a :
    IF a.w.err # "" THEN a
    ELSE With(BufferPool_write_page(
                [a.w EXCEPT !.heap[a.page] = leaf_split_new(a.w.heap[leaf], @),
                            !.heap[leaf] = leaf_split_old(@, a.w.heap[a.page].id)],
                leaf),
              LAMBDA wb : IF wb.err # "" THEN [w |-> wb, page |-> 0]
                          ELSE [w |-> BufferPool_write_page(wb, a.page), page |-> a.page]))

\* split_internal_page, lines 218-243
split_internal_block(w, node) ==
  With(BufferPool_allocate_page(w, "Internal"), LAMBDA a :
    IF a.w.err # "" THEN a
    ELSE With(a.w.heap[node], LAMBDA data :
      With(reparent([a.w EXCEPT !.heap[node] = internal_split_off(data),
                                !.heap[a.page] = internal_split_new(data, @)],
                    VecTail(data.children, Len(data.keys) \div 2 + 1), 1,
                    a.w.heap[a.page].id),
           LAMBDA wc :
             IF wc.err # "" THEN [w |-> wc, page |-> 0]
             ELSE With(BufferPool_write_page(
                         [wc EXCEPT !.heap[a.page].parent_id = wc.heap[node].parent_id,
                                    !.heap[node] = internal_truncate(@, Len(data.keys) \div 2)],
                         node),
                       LAMBDA wd : IF wd.err # "" THEN [w |-> wd, page |-> 0]
                                   ELSE [w |-> BufferPool_write_page(wd, a.page),
                                         page |-> a.page]))))

\* insert, lines 28-62: everything before the split
InsertCall(t) ==
  /\ pc[t] = "idle"
  /\ Unused # {}
  /\ \E key \in {MinOf(Unused), MaxOf(Unused)} : \E pick \in Picks :
       /\ ncalls' = [ncalls EXCEPT ![key] = @ + 1]
       /\ IF root = None
          THEN \E w \in {insert(World(pick), key, ValueOf(key, 0))} :
                  /\ Install(w)
                  /\ SplitReturn(t, key, w.err)
          ELSE \E f \in {find_leaf_page(World(pick), key)} :
                 IF f.w.err # "" THEN Install(f.w) /\ SplitReturn(t, key, f.w.err)
                 ELSE \E w \in {BufferPool_write_page(
                                  [f.w EXCEPT !.heap[f.page] =
                                                leaf_insert(@, key, ValueOf(key, 0), pick)],
                                  f.page)} :
                        /\ Install(w)
                        /\ IF w.err = "" /\ Len(w.heap[f.page].keys) > ORDER - 1
                           THEN /\ call' = [call EXCEPT ![t] = Locals(key, f.page, 0, 0)]
                                /\ current_page' = [current_page EXCEPT ![t] = f.page]
                                /\ Goto(t, "split_leaf")
                                /\ UNCHANGED last
                           ELSE SplitReturn(t, key, w.err)
  /\ UNCHANGED <<first, ret, ncall, wlocks, poisoned, pool_lock, reentry, capacity, recent,
                 allocated>>

\* split_leaf_page, lines 139-158: allocate the new leaf, write-lock the leaf
\* and the new leaf, move the upper half, write both
SplitLeafBlock(t) ==
  /\ pc[t] = "split_leaf"
  /\ LockRequest(t, current_page[t]) = "granted"
  /\ \E pick \in Picks : \E b \in {split_leaf_block(World(pick), current_page[t])} :
       IF b.w.err # "" THEN Fail(t, b.w) /\ UNCHANGED wlocks
       ELSE /\ Install(b.w)
            /\ wlocks' = wlocks \cup {<<t, current_page[t]>>, <<t, b.page>>}
            /\ call' = [call EXCEPT ![t] = Locals(call[t].key, current_page[t],
                                                  b.w.heap[b.page].keys[1], b.page)]
            /\ Goto(t, "block_end")
            /\ UNCHANGED <<last, current_page>>
  /\ UNCHANGED <<hist_vars, ret, ncall, poisoned, pool_lock, reentry, capacity, recent,
                 allocated>>

\* split_internal_page, lines 218-243: allocate the new internal page,
\* write-lock the page and the new one, move the upper half, write-lock every
\* moved child to set its parent, write both; taken when no other thread
\* holds a guard the block would wait for
SplitInternalBlock(t) ==
  /\ pc[t] = "split_internal"
  /\ \A l \in wlocks : l[1] = t
  /\ \E pick \in Picks : \E b \in {split_internal_block(World(pick), current_page[t])} :
       IF b.w.err # "" THEN Fail(t, b.w) /\ UNCHANGED wlocks
       ELSE /\ Install(b.w)
            /\ wlocks' = wlocks \cup {<<t, current_page[t]>>, <<t, b.page>>}
            /\ call' = [call EXCEPT ![t] =
                          Locals(call[t].key, current_page[t],
                                 heap[current_page[t]].keys[Len(heap[current_page[t]].keys) \div 2 + 1],
                                 b.page)]
            /\ Goto(t, "block_end")
            /\ UNCHANGED <<last, current_page>>
  /\ UNCHANGED <<hist_vars, ret, ncall, poisoned, pool_lock, reentry, capacity, recent,
                 allocated>>

\* lines 159 and 244: the block ends and its two write guards are dropped
BlockEnd(t) ==
  /\ pc[t] = "block_end"
  /\ wlocks' = drop_guards(wlocks, t, {call[t].left, call[t].right})
  /\ Goto(t, "parent_read")
  /\ UNCHANGED <<tree_vars, hist_vars, last, call, current_page, ret, ncall, poisoned,
                 pool_lock, reentry, capacity, recent, allocated>>

\* insert_into_parent, lines 171-177 and 199: read-lock left for its parent_id
\* and drop the guard; then fetch the parent, or allocate the new root
ParentRead(t) ==
  /\ pc[t] = "parent_read"
  /\ LockRequest(t, call[t].left) = "granted"
  /\ \E pick \in Picks :
       \E g \in {IF heap[call[t].left].parent_id # None
                 THEN BufferPool_get_page(World(pick), heap[call[t].left].parent_id[1])
                 ELSE BufferPool_allocate_page(World(pick), "Internal")} :
          IF g.w.err # "" THEN Fail(t, g.w) /\ wlocks' = {l \in wlocks : l[1] # t}
          ELSE /\ Install(g.w)
               /\ call' = [call EXCEPT ![t].parent = g.page]
               /\ Goto(t, IF heap[call[t].left].parent_id # None
                          THEN "parent_lock" ELSE "root_lock")
               /\ UNCHANGED <<last, current_page, wlocks>>
  /\ UNCHANGED <<hist_vars, ret, ncall, poisoned, pool_lock, reentry, capacity, recent,
                 allocated>>

\* insert_into_parent, line 179: write-lock the parent
ParentLock(t) ==
  /\ pc[t] = "parent_lock"
  /\ LockRequest(t, call[t].parent) = "granted"
  /\ wlocks' = wlocks \cup {<<t, call[t].parent>>}
  /\ Goto(t, "parent_link")
  /\ UNCHANGED <<tree_vars, hist_vars, last, call, current_page, ret, ncall, poisoned,
                 pool_lock, reentry, capacity, recent, allocated>>

\* insert_into_parent, lines 180-188: under the parent's guard, insert the
\* separator, read-lock right for its id, write-lock right to set its parent,
\* write the parent
ParentLink(t) ==
  /\ pc[t] = "parent_link"
  /\ LockRequest(t, call[t].right) = "granted"
  /\ \E pick \in Picks :
       \E w \in {BufferPool_write_page(
                   [World(pick) EXCEPT
                      !.heap[call[t].parent] =
                         parent_insert(@, call[t].up_key, heap[call[t].right].id, pick),
                      !.heap[call[t].right].parent_id = Some(heap[call[t].parent].id)],
                   call[t].parent)} :
          IF w.err # "" THEN Fail(t, w) /\ wlocks' = {l \in wlocks : l[1] # t}
          ELSE /\ Install(w)
               /\ Goto(t, "parent_end")
               /\ UNCHANGED <<last, call, current_page, wlocks>>
  /\ UNCHANGED <<hist_vars, ret, ncall, poisoned, pool_lock, reentry, capacity, recent,
                 allocated>>

\* insert_into_parent, lines 190-196: the parent's guard is dropped; a parent
\* over capacity is split in turn
ParentEnd(t) ==
  /\ pc[t] = "parent_end"
  /\ wlocks' = drop_guards(wlocks, t, {call[t].parent})
  /\ IF Len(heap[call[t].parent].keys) > ORDER - 1
     THEN /\ current_page' = [current_page EXCEPT ![t] = call[t].parent]
          /\ Goto(t, "split_internal")
          /\ UNCHANGED <<last, call>>
     ELSE SplitReturn(t, call[t].key, "")
  /\ UNCHANGED <<tree_vars, hist_vars, ret, ncall, poisoned, pool_lock, reentry,
                 capacity, recent, allocated>>

\* insert_into_parent, line 201: write-lock the new root
RootLock(t) ==
  /\ pc[t] = "root_lock"
  /\ LockRequest(t, call[t].parent) = "granted"
  /\ wlocks' = wlocks \cup {<<t, call[t].parent>>}
  /\ Goto(t, "root_link")
  /\ UNCHANGED <<tree_vars, hist_vars, last, call, current_page, ret, ncall, poisoned,
                 pool_lock, reentry, capacity, recent, allocated>>

\* insert_into_parent, lines 202-206: under the new root's guard, push the
\* separator, read-lock left and right for their ids, write-lock them to set
\* their parent
RootLink(t) ==
  /\ pc[t] = "root_link"
  /\ LockRequest(t, call[t].left) = "granted"
  /\ LockRequest(t, call[t].right) = "granted"
  /\ heap' = [heap EXCEPT
                ![call[t].parent] = new_root_data(@, call[t].up_key, heap[call[t].left].id,
                                                  heap[call[t].right].id),
                ![call[t].left].parent_id = Some(heap[call[t].parent].id),
                ![call[t].right].parent_id = Some(heap[call[t].parent].id)]
  /\ Goto(t, "root_end")
  /\ UNCHANGED <<root, pool, lru_queue, file, hist_vars, last, call, current_page, ret, ncall,
                 wlocks, poisoned, pool_lock, reentry, capacity, recent, allocated>>

\* insert_into_parent, lines 207-212: drop the guard, write the new root and
\* install it
RootEnd(t) ==
  /\ pc[t] = "root_end"
  /\ wlocks' = drop_guards(wlocks, t, {call[t].parent})
  /\ \E w \in {BufferPool_write_page(World("lowest"), call[t].parent)} :
       /\ Install(IF w.err # "" THEN w ELSE [w EXCEPT !.root = Some(call[t].parent)])
       /\ SplitReturn(t, call[t].key, w.err)
  /\ UNCHANGED <<hist_vars, ret, ncall, poisoned, pool_lock, reentry, capacity, recent,
                 allocated>>

\* threads call insert one after the other
SplitCall(t) ==
  /\ \A u \in Threads : pc[u] = "idle"
  /\ InsertCall(t)

SplitStep(t) ==
  \/ SplitLeafBlock(t) \/ SplitInternalBlock(t) \/ BlockEnd(t) \/ ParentRead(t)
  \/ ParentLock(t) \/ ParentLink(t) \/ ParentEnd(t)
  \/ RootLock(t) \/ RootLink(t) \/ RootEnd(t)

SplitNext == \E t \in Threads : SplitCall(t) \/ SplitStep(t)

SplitSpec == TreeInit /\ [][SplitNext]_vars

\* C30: when a thread is about to request the write guard of the parent (or
\* of the new root) in insert_into_parent, it holds no guard on the page that
\* was split nor on its new sibling
C30_ChildrenReleased ==
  \A t \in Threads :
     pc[t] \in {"parent_lock", "root_lock"} =>
        /\ <<t, call[t].left>> \notin wlocks
        /\ <<t, call[t].right>> \notin wlocks

\* C30 witness: a split has gone up two levels; the thread is about to lock
\* the new root over an internal page that was split
C30_Witness ==
  \E t \in Threads :
     /\ pc[t] = "root_lock"
     /\ heap[call[t].left].node_type = "Internal"
     /\ wlocks = {}

\* the page instances whose content lock the next statement of thread t requests
Requested(t) ==
  CASE pc[t] = "parent_read" -> {call[t].left}
    [] pc[t] \in {"parent_lock", "root_lock"} -> {call[t].parent}
    [] pc[t] = "parent_link" -> {call[t].right}
    [] pc[t] = "root_link" -> {call[t].left, call[t].right}
    [] OTHER -> {}

\* the page instances thread t holds a write guard on
Held(t) == {l[2] : l \in {m \in wlocks : m[1] = t}}

\* page instance h is a child of page instance p
IsChildOf(h, p) ==
  \/ heap[h].parent_id = Some(heap[p].id)
  \/ \E i \in 1..Len(heap[p].children) : heap[p].children[i] = heap[h].id

\* C31: no thread is about to request the content lock of a page while it
\* holds the content lock of that page's parent
C31_ChildThenParent ==
  \A t \in Threads : \A h \in Requested(t) : \A p \in Held(t) : ~IsChildOf(h, p)

\* the positions of a call at which the next statement requests the content
\* lock of current_page: insert lines 37 and 53, find_leaf_page line 99,
\* search line 84, write_page lines 103 and 108
ContentLockPcs ==
  {"new_fill", "leaf_lock", "find_loop", "search_leaf",
   "new_write_id", "new_write", "leaf_write_id", "leaf_write"}

\* C32: no thread is about to request the content lock of a page whose write
\* guard it holds; in particular none is inside write_page for such a page
C32_NoSelfRequest ==
  \A t \in Threads :
     pc[t] \in ContentLockPcs => <<t, current_page[t]>> \notin wlocks

\* ---------------------------------------------------------------- RaceSpec
\* Several inserts at a time, with the steps of SplitSpec, and searches in
\* between.  A call starts when no write guard is held, so that the part of
\* it that is one step here meets no lock it would have to wait for.  The
\* first MaxRace inserts may start while others are running; the later ones
\* start one after the other.
MaxRace == 5

RaceCall(t) ==
  /\ wlocks = {}
  /\ (\A u \in Threads : pc[u] = "idle") \/ Cardinality(Keys \ Unused) < MaxRace
  /\ InsertCall(t)

\* search of the key of the insert that returned Ok last, by an idle thread
RaceSearch(t) ==
  /\ pc[t] = "idle"
  /\ wlocks = {}
  /\ last.op = "insert"
  /\ last.err = ""
  /\ \E s \in {search(World(pick), last.key) : pick \in Picks} :
        /\ Install(s.w)
        /\ last' = [op |-> "search", key |-> last.key, err |-> s.w.err, value |-> s.value]
  /\ UNCHANGED <<hist_vars, thread_vars>>

RaceNext == \E t \in Threads : RaceCall(t) \/ SplitStep(t) \/ RaceSearch(t)

RaceSpec == TreeInit /\ [][RaceNext]_vars

\* C33: a search of k that begins after insert(k, v) has returned Ok returns
\* Some(v), also while other inserts are in their splits
C33_SearchDuringSplit ==
  last.op = "search" => last.err = "" /\ last.value = Some(ValueOf(last.key, 0))

\* C34: a split takes the write guard of a page that holds more than
\* ORDER - 1 keys, and leaves no key-less page behind
C34_SplitOverfull ==
  [][\A t \in Threads :
       (pc[t] \in {"split_leaf", "split_internal"} /\ pc'[t] = "block_end") =>
          /\ Len(heap[current_page[t]].keys) > ORDER - 1
          /\ heap'[call'[t].left].keys # <<>>
          /\ heap'[call'[t].right].keys # <<>>]_vars

\* C35: the root pointer, once set, is never empty again, and a new root is
\* an internal page with the previous root among its children
C35_RootGrows ==
  [][root # None =>
       /\ root' # None
       /\ root' # root =>
            /\ heap'[root'[1]].node_type = "Internal"
            /\ heap[root[1]].id \in Range(heap'[root'[1]].children)]_vars

\* the places (parent, index) at which page id is listed as a child among the
\* pages reachable from the root
ParentPlaces(id) ==
  {pl \in TreePages \X (1..(ORDER + 1)) :
     /\ pl[2] <= Len(PageOf(pl[1]).children)
     /\ PageOf(pl[1]).children[pl[2]] = id}

RECURSIVE LeafDepths(_, _)
\* the depths below page id at which a walk through children meets a leaf (or
\* a page without children), at most fuel levels down
LeafDepths(id, fuel) ==
  IF PageOf(id).node_type = "Leaf" \/ PageOf(id).children = <<>> \/ fuel = 0 THEN {0}
  ELSE UNION {{d + 1 : d \in LeafDepths(PageOf(id).children[i], fuel - 1)} :
                i \in 1..Len(PageOf(id).children)}

\* C36: after any sequence of completed inserts the pages reachable from the
\* root form a tree (the root is nobody's child, every other page is listed
\* once, by one page) and all leaves are at the same depth.
C36_TreeShape ==
  (Quiescent /\ root # None) =>
     /\ ParentPlaces(RootId) = {}
     /\ \A id \in TreePages \ {RootId} : Cardinality(ParentPlaces(id)) = 1
     /\ \A id \in TreePages : \A i \in 1..Len(PageOf(id).children) :
           PageOf(id).children[i] \in PageIds
     /\ \A id \in TreePages : PageOf(id).node_type = "Leaf" <=> PageOf(id).children = <<>>
     /\ Cardinality(LeafDepths(RootId, Len(file))) = 1

\* C36 witness: a tree of three levels
C36_Witness ==
  /\ Quiescent
  /\ root # None
  /\ LeafDepths(RootId, Len(file)) = {2}

\* --------------------------------------------------------------- FaultSpec
\* Spec with a Page Store whose writes may fail.
\* write_page, lines 108-110, when the seek or write_all of
\* StorageEngine::write_page (storage.rs:109-111) fails before anything is
\* written: the error goes up through the ? of index.rs:42 or 59, which ends
\* the insert and drops its guards
WriteFails(t) ==
  /\ pc[t] \in {"new_write", "leaf_write"}
  /\ LockRequest(t, current_page[t]) = "granted"
  /\ Return(t, "I/O error", None)
  /\ wlocks' = {l \in wlocks : l[1] # t}
  /\ UNCHANGED <<tree_vars, ncalls, last, call, current_page, ncall, poisoned, pool_lock,
                 reentry, capacity, recent, allocated>>

FaultNext == Next \/ \E t \in Threads : WriteFails(t)

FaultSpec == Init /\ [][FaultNext]_vars

\* C37: when an insert returns the error of a failed page write, the page it
\* was writing does not hold the key in memory and its cached content equals
\* its record on disk
C37_FailedWriteNoChange ==
  [][\A t \in Threads :
       (/\ pc[t] \in {"new_write", "leaf_write"}
        /\ pc'[t] = "idle"
        /\ ret'[t].err = "I/O error") =>
          /\ call[t].key \notin Range(heap'[current_page[t]].keys)
          /\ Decode(file'[heap'[current_page[t]].id + 1]).data = heap'[current_page[t]]]_vars

\* C38: the recency queue holds exactly the cached page ids, each of them
\* once: every id of the queue is a key of the cache mapping and every key of the
\* mapping is at one position of the queue.
C38_QueueIsKeys ==
  /\ Range(lru_queue) = DOMAIN pool
  /\ Len(lru_queue) = Cardinality(DOMAIN pool)
====
